---- MODULE Spec2Model ----
(***************************************************************************)
(* Verification model of the kafka-llm-service agent runtime.              *)
(*                                                                         *)
(* Part 1: messages and the context-compaction providers                   *)
(*         (src/src/llm/context_compaction).                               *)
(* Part 2: the tool executor, AgentToolProvider.run_tool_stream            *)
(*         (src/src/tools/agent.py).                                       *)
(* Part 3: the agent loop, Agent.run (src/src/agents/base.py), observed by *)
(*         KafkaAgent.run_with_thread (src/src/kafka/base.py).             *)
(***************************************************************************)
EXTENDS Integers, Sequences, FiniteSets, TLC

VARIABLES
    \* ---- compaction (Part 1)
    c_pc,               \* "call" | "returned" ("off" outside SpecCompact)
    c_strategy,         \* "summarize" | "truncate"
    c_summary_ok,       \* does the auxiliary summarization call succeed
    c_messages,         \* the argument of compact()
    c_result,           \* the list compact() returned
    c_path,             \* which return statement of compact() produced c_result
    \* ---- tool executor (Part 2)
    t_pc,               \* "call" | "streaming" | "done" ("off" outside SpecTool)
    t_name,             \* the tool name run_tool_stream was called with
    t_entry,            \* what the registry holds under that name
    t_behaviour,        \* what the backend does during this call
    t_chunks,           \* the ToolResultChunks yielded so far
    \* ---- agent loop (Part 3)
    pc,                 \* where Agent.run / run_with_thread stands ("off" outside SpecAgent)
    iteration,          \* the for loop's counter
    working_messages,
    context_compaction_attempted,
    chunks_buffer,      \* the provider chunks buffered inside the try block
    full_content,
    accumulated_tool_calls,   \* index -> tool call, the indexes seen so far
    tool_calls,         \* the iteration's tool calls, in index order
    call_pos,           \* position in tool_calls of the call being executed
    tool_stream,        \* what run_tool_stream has still to yield for that call
    result_content,
    error,              \* the exception caught or escaping: "" | "context_length" | "other" | ...
    events,             \* every event yielded to the caller, in order
    oplog,              \* the provider and compaction calls made, in order
    chunk_count,        \* provider chunks received in this run
    rwt,                \* the locals of run_with_thread that track what to save
    saved,              \* the messages run_with_thread saved after the loop
    \* Part 4, the sandbox manager
    pending_threads,    \* SandboxManager._pending_threads
    ready_sandboxes,    \* SandboxManager._ready_sandboxes: thread id -> handle, None when absent
    thread_sandbox_id,  \* the store's sandbox id of each thread, None when unbound
    claimed,            \* the sandboxes whose /health reports claimed = true
    created,            \* how many sandboxes the provider has created so far
    task,               \* thread id -> the position and locals of _ensure_sandbox_task
    manager_calls,      \* caller -> the position and locals of the manager call it runs
    handed_out,         \* the handle the last step returned for tool use or put in the ready cache
    overlapped,         \* whether two manager operations were ever in progress together
    \* Part 5, the message sanitizer
    s_pc,
    s_messages,         \* the argument of sanitize_messages_for_openai
    s_sanitized,        \* what it returned
    s_again,            \* what it returned when called on its own result
    \* Part 6, the tool registry of AgentToolProvider
    r_tools,            \* _tools: name -> definition
    r_sandbox_tools,    \* _sandbox_tools: name -> definition
    r_mcp_tools,        \* the connected server's discovered tools: name -> definition
    r_tool_source_map,  \* _tool_source_map: name -> source
    r_first,            \* name -> the kind and definition of its first registration
    \* Part 7, prune_images_in_messages
    p_pc,
    p_messages,         \* the argument of prune_images_in_messages
    p_result,           \* what it returned
    \* Part 8, the messages table of LocalDBClient
    d_now,              \* the database clock, in whole seconds
    d_rows,             \* the rows of one thread, in insertion order
    d_messages,         \* what the last get_thread_messages returned
    \* Part 9, provisioning with a warm pool
    w_warm_factory,     \* _warm_factory is set
    w_pool,             \* the warm sandboxes the factory still has
    w_thread_sandbox_id,\* the store: thread -> bound sandbox
    w_created,          \* the calls of DaytonaSandbox.create so far
    w_call,             \* thread -> the provisioning in progress for it
    \* Part 10, the SSE stream generators of the server
    g_pc,
    g_generator,        \* which generator runs
    g_initialized,      \* the globals its first statement tests are set
    g_run,              \* the events the agent run has yielded to it
    g_final_content,    \* the length of final_content (generate_completion_stream)
    g_messages_to_save, \* the length of messages_to_save (generate_completion_stream)
    g_lines,            \* the data lines the generator has yielded
    f_pc,
    f_messages,         \* the argument messages of find_safe_split_point
    f_target_split,     \* the argument target_split
    f_safe_split,       \* what it returned
    h_pc,
    h_method,           \* SandboxTool.run or run_stream
    h_handle,           \* the handle the tool is bound to
    h_steps,            \* what the call in progress did on the handle
    h_runs,             \* the calls finished
    m_pipe,             \* the broadcaster pipe: the messages written and not yet read
    m_written,          \* the messages the tool has written
    m_queue,            \* chunk_queue
    m_tool_done,        \* tool_done is set
    m_reader,           \* read_pipe: "loop" or "done"
    m_call,             \* call_tool_task: "running" or "finished"
    m_consumer,         \* the loop of call_tool_stream
    m_emitted,          \* the chunks run_tool_stream has yielded
    l_real,             \* _real_sandbox: the real handle, None before the resolution
    l_lock,             \* _resolve_lock: its holder, or ""
    l_ops,              \* caller -> the operation it has in progress on the lazy handle
    l_ready,            \* what the manager answers to get_sandbox_if_ready now
    l_forwarded,        \* the operations forwarded so far, with the handle they went to
    l_resolutions,      \* how often _real_sandbox was assigned
    e_threads,          \* the ids in the threads table
    e_created,          \* thread id -> the create_thread calls that inserted it
    e_ops               \* caller -> its run_with_thread call, up to ensure_thread_exists

compactVars == <<c_pc, c_strategy, c_summary_ok, c_messages, c_result, c_path>>
toolVars == <<t_pc, t_name, t_entry, t_behaviour, t_chunks>>

agentVars == <<pc, iteration, working_messages, context_compaction_attempted,
               chunks_buffer, full_content, accumulated_tool_calls, tool_calls,
               call_pos, tool_stream, result_content, error, events, oplog,
               chunk_count, rwt, saved>>

managerVars == <<pending_threads, ready_sandboxes, thread_sandbox_id, claimed,
                 created, task, manager_calls, handed_out, overlapped>>
sanitizeVars == <<s_pc, s_messages, s_sanitized, s_again>>
registryVars == <<r_tools, r_sandbox_tools, r_mcp_tools, r_tool_source_map, r_first>>

pruneVars == <<p_pc, p_messages, p_result>>

\* The parts with a specification of their own function, and for each of
\* them the variables of the others.
dbVars == <<d_now, d_rows, d_messages>>

warmVars == <<w_warm_factory, w_pool, w_thread_sandbox_id, w_created, w_call>>

streamVars == <<g_pc, g_generator, g_initialized, g_run, g_final_content,
                g_messages_to_save, g_lines>>

\* The variables of the later parts
splitVars == <<f_pc, f_messages, f_target_split, f_safe_split>>
healthVars == <<h_pc, h_method, h_handle, h_steps, h_runs>>
pipeVars == <<m_pipe, m_written, m_queue, m_tool_done, m_reader, m_call, m_consumer, m_emitted>>
lazyVars == <<l_real, l_lock, l_ops, l_ready, l_forwarded, l_resolutions>>
ensureVars == <<e_threads, e_created, e_ops>>

extraVars == <<splitVars, healthVars, pipeVars, lazyVars, ensureVars>>
exceptSplitVars ==
    <<compactVars, toolVars, agentVars, managerVars, sanitizeVars, registryVars, pruneVars,
      dbVars, warmVars, streamVars,
      healthVars,
      pipeVars,
      lazyVars,
      ensureVars>>
exceptHealthVars ==
    <<compactVars, toolVars, agentVars, managerVars, sanitizeVars, registryVars, pruneVars,
      dbVars, warmVars, streamVars,
      splitVars,
      pipeVars,
      lazyVars,
      ensureVars>>
exceptPipeVars ==
    <<compactVars, toolVars, agentVars, managerVars, sanitizeVars, registryVars, pruneVars,
      dbVars, warmVars, streamVars,
      splitVars,
      healthVars,
      lazyVars,
      ensureVars>>
exceptLazyVars ==
    <<compactVars, toolVars, agentVars, managerVars, sanitizeVars, registryVars, pruneVars,
      dbVars, warmVars, streamVars,
      splitVars,
      healthVars,
      pipeVars,
      ensureVars>>
exceptEnsureVars ==
    <<compactVars, toolVars, agentVars, managerVars, sanitizeVars, registryVars, pruneVars,
      dbVars, warmVars, streamVars,
      splitVars,
      healthVars,
      pipeVars,
      lazyVars>>
\* end of the variables of the later parts

utilityVars ==
    <<sanitizeVars, registryVars, pruneVars, dbVars, warmVars, streamVars, extraVars>>
exceptSanitizeVars ==
    <<compactVars, toolVars, agentVars, managerVars, registryVars, pruneVars, dbVars,
      warmVars, streamVars, extraVars>>
exceptRegistryVars ==
    <<compactVars, toolVars, agentVars, managerVars, sanitizeVars, pruneVars, dbVars,
      warmVars, streamVars, extraVars>>
exceptPruneVars ==
    <<compactVars, toolVars, agentVars, managerVars, sanitizeVars, registryVars, dbVars,
      warmVars, streamVars, extraVars>>
exceptWarmVars ==
    <<compactVars, toolVars, agentVars, managerVars, sanitizeVars, registryVars, pruneVars,
      dbVars, streamVars, extraVars>>
exceptStreamVars ==
    <<compactVars, toolVars, agentVars, managerVars, sanitizeVars, registryVars, pruneVars,
      dbVars, warmVars, extraVars>>
exceptDbVars ==
    <<compactVars, toolVars, agentVars, managerVars, sanitizeVars, registryVars, pruneVars,
      warmVars, streamVars, extraVars>>

vars == <<compactVars, toolVars, agentVars, managerVars, utilityVars>>

-----------------------------------------------------------------------------
(* Generic helpers *)

Range(s) == {s[i] : i \in 1..Len(s)}

SeqsUpTo(S, n) == UNION {[1..k -> S] : k \in 0..n}

Max(a, b) == IF a >= b THEN a ELSE b

\* s[from..Len(s)] with a 0-based start, as the Python slice s[from:]
SliceFrom(s, from) == SubSeq(s, from + 1, Len(s))

\* s[0:to], as the Python slice s[:to]
SliceTo(s, to) == SubSeq(s, 1, to)

-----------------------------------------------------------------------------
(* Part 1a: messages                                                       *)
(*                                                                         *)
(* A message is a record role/content/tool_calls/tool_call_id.  content is *)
(* a string, "" standing for both None and the empty string (the code only *)
(* tests its truthiness), and PartsContent standing for a content that is  *)
(* a list of typed parts instead of a string.  tool_calls is a sequence of *)
(* tool calls, <<>> standing for None (again only truthiness is tested).   *)

PartsContent == "<list-of-parts>"

Msg(role, content, calls, call_id) ==
    [role |-> role, content |-> content, tool_calls |-> calls,
     tool_call_id |-> call_id]

\* arguments is the JSON text of the call's arguments; thought_signature is
\* the key some models add under "function", "" when the key is absent.
ToolCall(id, name, arguments) ==
    [id |-> id, name |-> name, arguments |-> arguments, thought_signature |-> ""]

\* The same call or delta with function.thought_signature set.
Signed(call, thought_signature) == [call EXCEPT !.thought_signature = thought_signature]

ToolCallIds(msg) == {msg.tool_calls[i].id : i \in 1..Len(msg.tool_calls)}

IsAssistantWithToolCalls(msg) == msg.role = "assistant" /\ msg.tool_calls # <<>>

-----------------------------------------------------------------------------
(* Part 1b: context compaction *)

\* Model-scale values of the providers' constructor parameters
\* (min_messages_to_summarize, default 10; keep_count, default 50).
min_messages_to_summarize == 2
keep_count == 2

\* summarize_ratio = 0.75 as a fraction
SummarizeRatioNum == 3
SummarizeRatioDen == 4

\* The literal 50 of the summarization provider's truncation fallback.
FallbackKeep == 50

\* The walk back if it looked at the message before the split only.
RECURSIVE SafeSplitWalk_CurrentOnly(_, _)
SafeSplitWalk_CurrentOnly(messages, safe_split) ==
    IF safe_split <= 0 THEN safe_split
    ELSE IF IsAssistantWithToolCalls(messages[safe_split])
         THEN SafeSplitWalk_CurrentOnly(messages, safe_split - 1)
         ELSE safe_split

RECURSIVE SafeSplitWalk(_, _)
SafeSplitWalk(messages, safe_split) ==
    IF safe_split <= 0 THEN safe_split
    ELSE LET current_msg == messages[safe_split]        \* messages[safe_split - 1]
             has_next == safe_split < Len(messages)
         IN IF IsAssistantWithToolCalls(current_msg)
            THEN SafeSplitWalk(messages, safe_split - 1)
            ELSE IF has_next /\ messages[safe_split + 1].role = "tool"
                 THEN SafeSplitWalk(messages, safe_split - 1)
                 ELSE safe_split

find_safe_split_point(messages, target_split) ==
    IF target_split <= 0 THEN 0
    ELSE IF target_split >= Len(messages) THEN Len(messages)
    ELSE SafeSplitWalk(messages, target_split)

\* First pass of validate_message_structure: every non-empty tool-call id of
\* every assistant message of the list, wherever it stands.
CollectToolCallIds(messages) ==
    UNION {{id \in ToolCallIds(messages[i]) : id # ""} :
           i \in {j \in 1..Len(messages) : IsAssistantWithToolCalls(messages[j])}}

KeepValidated(msg, valid_tool_call_ids) ==
    /\ ~(msg.role = "tool" /\ msg.tool_call_id \notin valid_tool_call_ids)
    /\ ~(msg.role = "assistant" /\ msg.content = "" /\ msg.tool_calls = <<>>)

\* validate_message_structure switched off.
validate_message_structure_Off(messages) == messages

validate_message_structure(messages) ==
    LET valid_tool_call_ids == CollectToolCallIds(messages)
        Keep(m) == KeepValidated(m, valid_tool_call_ids)
    IN SelectSeq(messages, Keep)

\* The leading run of system messages / everything from the first
\* non-system message on.
RECURSIVE LeadingSystemCount(_)
LeadingSystemCount(messages) ==
    IF messages = <<>> \/ Head(messages).role # "system" THEN 0
    ELSE 1 + LeadingSystemCount(Tail(messages))

SystemMessages(messages) == SliceTo(messages, LeadingSystemCount(messages))
NonSystemMessages(messages) == SliceFrom(messages, LeadingSystemCount(messages))

SummaryMessage == Msg("system", PartsContent, <<>>, "")

\* SummarizationCompactionProvider.compact: the path taken and the list returned.
SummarizationPath(messages, summary_ok) ==
    IF Len(NonSystemMessages(messages)) < min_messages_to_summarize THEN "unchanged"
    ELSE IF summary_ok THEN "summarized"
    ELSE "fallback"

SummarizationCompact(messages, summary_ok) ==
    LET system_messages == SystemMessages(messages)
        non_system_messages == NonSystemMessages(messages)
        n == Len(non_system_messages)
        target_split == (n * SummarizeRatioNum) \div SummarizeRatioDen
        split_point == find_safe_split_point(non_system_messages, target_split)
        messages_to_keep == SliceFrom(non_system_messages, split_point)
        safe_cutoff == find_safe_split_point(non_system_messages,
                                             Max(FallbackKeep, n - FallbackKeep))
    IN IF n < min_messages_to_summarize THEN messages
       ELSE IF summary_ok
            THEN validate_message_structure(
                     system_messages \o <<SummaryMessage>> \o messages_to_keep)
            ELSE validate_message_structure(
                     system_messages \o SliceFrom(non_system_messages, safe_cutoff))

TruncationPath(messages) ==
    IF Len(NonSystemMessages(messages)) <= keep_count THEN "unchanged" ELSE "truncated"

TruncationCompact(messages) ==
    LET system_messages == SystemMessages(messages)
        non_system_messages == NonSystemMessages(messages)
        n == Len(non_system_messages)
        safe_cutoff == find_safe_split_point(non_system_messages, n - keep_count)
    IN IF n <= keep_count THEN messages
       ELSE validate_message_structure(
                system_messages \o SliceFrom(non_system_messages, safe_cutoff))

-----------------------------------------------------------------------------
(* Specification SpecCompact: compact() applied to bounded message lists *)

MaxLen == 4

CompactIds == {"a", "b"}

CompactMsgs ==
    {Msg("system", "s", <<>>, ""), Msg("user", "u", <<>>, ""),
     Msg("assistant", "x", <<>>, ""), Msg("assistant", "", <<>>, "")}
    \cup {Msg("assistant", "", <<ToolCall(id, "t", "")>>, "") : id \in CompactIds}
    \cup {Msg("tool", "r", <<>>, id) : id \in CompactIds}

CompactIdle ==
    /\ c_pc = "off" /\ c_strategy = "summarize" /\ c_summary_ok = TRUE
    /\ c_messages = <<>> /\ c_result = <<>> /\ c_path = "none"

ToolIdle ==
    /\ t_pc = "off" /\ t_name = "" /\ t_entry = [source |-> "none", tool |-> "absent"]
    /\ t_behaviour = [outputs |-> <<>>, raises |-> FALSE] /\ t_chunks = <<>>

EmptyRwt ==
    [messages_to_save |-> <<>>, final_content |-> "",
     current_assistant_content |-> "", current_tool_calls |-> <<>>,
     accumulated_tool_results |-> <<>>]

AgentIdle ==
    /\ pc = "off" /\ iteration = 0 /\ working_messages = <<>>
    /\ context_compaction_attempted = FALSE /\ chunks_buffer = <<>>
    /\ full_content = "" /\ accumulated_tool_calls = <<>> /\ tool_calls = <<>>
    /\ call_pos = 0 /\ tool_stream = <<>> /\ result_content = "" /\ error = ""
    /\ events = <<>> /\ oplog = <<>> /\ chunk_count = 0 /\ rwt = EmptyRwt
    /\ saved = <<>>

\* What get_thread_sandbox_id returns for a thread that has no sandbox, and
\* the value of a local that holds no handle.  Sandbox ids are 1, 2, ...
None == 0

\* The thread ids the manager is called with, and the callers that can be
\* inside a manager coroutine at the same time: a request being served, which
\* asks for the sandbox if it is ready (server.py, and the polling of a lazy
\* handle), and a user of the blocking operations.
Threads == {"t1"}
Callers == {"request", "blocking"}
CallerOps ==
    [request |-> {"get_sandbox_if_ready"},
     blocking |-> {"ensure_sandbox", "get_or_create_sandbox_ref"}]

\* A caller that is in no manager coroutine.
NoCall ==
    [op |-> "none", pc |-> "idle", thread |-> "", sandbox_id |-> None,
     sandbox |-> None, path |-> ""]

\* No handle has been handed out yet.
NoHandle ==
    [op |-> "none", thread |-> "", sandbox |-> None, path |-> "",
     returned |-> FALSE, claimed |-> FALSE, bound |-> None, overlapped |-> FALSE]

\* No background task: the last one, if any, has finished.  steps are the
\* awaited steps of the last task that succeeded, inserted whether it put its
\* handle in the ready cache.
NoTask == [pc |-> "none", sandbox |-> None, steps |-> {}, inserted |-> FALSE]

ManagerIdle ==
    /\ pending_threads = {} /\ ready_sandboxes = [t \in Threads |-> None]
    /\ thread_sandbox_id = [t \in Threads |-> None]
    /\ claimed = {} /\ created = 0
    /\ task = [t \in Threads |-> NoTask]
    /\ manager_calls = [c \in Callers |-> NoCall]
    /\ handed_out = NoHandle /\ overlapped = FALSE

SanitizeIdle ==
    s_pc = "off" /\ s_messages = <<>> /\ s_sanitized = <<>> /\ s_again = <<>>

\* The names under which tools are registered in the runs explored.
RegisteredNames == {"n", "m"}

\* The tool definitions registered; "" stands for no entry under a name.
ToolDefinitions == {"d1", "d2"}

NoFirst == [kind |-> "", definition |-> ""]

RegistryIdle ==
    /\ r_tools = [name \in RegisteredNames |-> ""]
    /\ r_sandbox_tools = [name \in RegisteredNames |-> ""]
    /\ r_mcp_tools = [name \in RegisteredNames |-> ""]
    /\ r_tool_source_map = [name \in RegisteredNames |-> ""]
    /\ r_first = [name \in RegisteredNames |-> NoFirst]

PruneIdle == p_pc = "off" /\ p_messages = <<>> /\ p_result = <<>>

DbIdle == d_now = 0 /\ d_rows = <<>> /\ d_messages = <<>>

WarmThreads == {"a", "b"}
NoSandbox == [kind |-> "none", n |-> 0]
NoProvisioning ==
    [op |-> "none", pc |-> "none", sandbox |-> NoSandbox, warm_available |-> FALSE,
     created |-> FALSE]

WarmIdle ==
    /\ w_warm_factory = FALSE /\ w_pool = 0 /\ w_created = 0
    /\ w_thread_sandbox_id = [t \in WarmThreads |-> NoSandbox]
    /\ w_call = [t \in WarmThreads |-> NoProvisioning]

StreamIdle ==
    /\ g_pc = "none" /\ g_generator = "" /\ g_initialized = FALSE /\ g_run = <<>>
    /\ g_final_content = 0 /\ g_messages_to_save = 0 /\ g_lines = <<>>

BaseUtilityIdle ==
    SanitizeIdle /\ RegistryIdle /\ PruneIdle /\ DbIdle /\ WarmIdle /\ StreamIdle

SplitIdle ==
    /\ f_pc = "none" /\ f_messages = <<>> /\ f_target_split = 0 /\ f_safe_split = 0

HealthIdle ==
    /\ h_pc = "none" /\ h_method = ""
    /\ h_handle = [variant |-> "none", resolved |-> FALSE, state |-> "creating"]
    /\ h_steps = <<>> /\ h_runs = 0

PipeIdle ==
    /\ m_pipe = <<>> /\ m_written = 0 /\ m_queue = <<>> /\ m_tool_done = FALSE
    /\ m_reader = "none" /\ m_call = "none" /\ m_consumer = "none" /\ m_emitted = <<>>

NoLazyOp == [op |-> "none", pc |-> "none", polls |-> 0, sandbox |-> None]

LazyCallers == {"c1", "c2"}

LazyIdle ==
    /\ l_real = None /\ l_lock = "" /\ l_ready = None /\ l_forwarded = <<>>
    /\ l_resolutions = 0
    /\ l_ops = [c \in LazyCallers |-> NoLazyOp]

NoEnsureOp == [pc |-> "idle", thread_id |-> ""]

EnsureCallers == {"k1", "k2", "k3"}

EnsureThreads == {"t1", "t2"}

EnsureIdle ==
    /\ e_threads = {}
    /\ e_created = [t \in EnsureThreads |-> 0]
    /\ e_ops = [c \in EnsureCallers |-> NoEnsureOp]

\* The idle states of the later parts
ExtraIdle == SplitIdle /\ HealthIdle /\ PipeIdle /\ LazyIdle /\ EnsureIdle
ExceptSplitIdle ==
    /\ CompactIdle /\ ToolIdle /\ AgentIdle /\ ManagerIdle /\ BaseUtilityIdle
    /\ HealthIdle
    /\ PipeIdle
    /\ LazyIdle
    /\ EnsureIdle
ExceptHealthIdle ==
    /\ CompactIdle /\ ToolIdle /\ AgentIdle /\ ManagerIdle /\ BaseUtilityIdle
    /\ SplitIdle
    /\ PipeIdle
    /\ LazyIdle
    /\ EnsureIdle
ExceptPipeIdle ==
    /\ CompactIdle /\ ToolIdle /\ AgentIdle /\ ManagerIdle /\ BaseUtilityIdle
    /\ SplitIdle
    /\ HealthIdle
    /\ LazyIdle
    /\ EnsureIdle
ExceptLazyIdle ==
    /\ CompactIdle /\ ToolIdle /\ AgentIdle /\ ManagerIdle /\ BaseUtilityIdle
    /\ SplitIdle
    /\ HealthIdle
    /\ PipeIdle
    /\ EnsureIdle
ExceptEnsureIdle ==
    /\ CompactIdle /\ ToolIdle /\ AgentIdle /\ ManagerIdle /\ BaseUtilityIdle
    /\ SplitIdle
    /\ HealthIdle
    /\ PipeIdle
    /\ LazyIdle
\* end of the idle states of the later parts

UtilityIdle == BaseUtilityIdle /\ ExtraIdle

InitCompact ==
    /\ ToolIdle
    /\ AgentIdle
    /\ ManagerIdle
    /\ UtilityIdle
    /\ c_pc = "call"
    /\ c_strategy \in {"summarize", "truncate"}
    /\ c_summary_ok \in BOOLEAN
    /\ c_messages \in SeqsUpTo(CompactMsgs, MaxLen)
    /\ c_result = <<>>
    /\ c_path = "none"

Compact ==
    /\ c_pc = "call"
    /\ c_pc' = "returned"
    /\ IF c_strategy = "summarize"
       THEN /\ c_result' = SummarizationCompact(c_messages, c_summary_ok)
            /\ c_path' = SummarizationPath(c_messages, c_summary_ok)
       ELSE /\ c_result' = TruncationCompact(c_messages)
            /\ c_path' = TruncationPath(c_messages)
    /\ UNCHANGED <<c_strategy, c_summary_ok, c_messages>>
    /\ UNCHANGED <<toolVars, agentVars, managerVars, utilityVars>>

NextCompact == Compact

SpecCompact == InitCompact /\ [][NextCompact]_vars

-----------------------------------------------------------------------------
(* Part 2: the tool executor                                               *)
(*                                                                         *)
(* A registry entry says what the provider holds under one name:           *)
(*   source : _tool_source_map.get(name)                                   *)
(*            "none" | "local" | "sandbox" | "mcp" (an MCP server's name)  *)
(*   tool   : _tools.get(name) with its handler                            *)
(*            "absent" | "no_handler" | "stream" | "async" | "sync";       *)
(*            for an MCP source, whether the broadcast pipe exists:        *)
(*            "no_pipe" | "pipe";                                          *)
(*            for a sandbox source, the handle the tool holds:             *)
(*            "running"      its is_running is true                        *)
(*            "lazy"         a LazySandbox not resolved yet, whose thread  *)
(*                           gets a ready sandbox within the timeout       *)
(*            "lazy_timeout" a LazySandbox not resolved yet, whose resolve *)
(*                           wait runs into the timeout                    *)
(* A backend behaviour is what the handler, the sandbox or the MCP server  *)
(* does during the call: the outputs it produces, in order, and whether it *)
(* raises after them (an empty outputs with raises is a failure before     *)
(* the stream starts, such as a failed health wait).                       *)

ToolResultChunk(delta, is_complete) == [delta |-> delta, is_complete |-> is_complete]

ErrorChunk(text) == ToolResultChunk("Error: " \o text, TRUE)

FinalChunk == ToolResultChunk("", TRUE)

OutputChunks(outputs) ==
    [i \in 1..Len(outputs) |-> ToolResultChunk(outputs[i], FALSE)]

\* StreamThenFinal without the except clause: a backend that raises ends the
\* sequence with no chunk for the error.
StreamThenFinal_NoExcept(outputs, raises) ==
    OutputChunks(outputs) \o (IF raises THEN <<>> ELSE <<FinalChunk>>)

\* The body of the try block once the backend is streaming: one chunk per
\* output, then the final chunk, or the except clause's error chunk.
StreamThenFinal(outputs, raises) ==
    OutputChunks(outputs)
      \o (IF raises THEN <<ErrorChunk("exception")>> ELSE <<FinalChunk>>)

\* SandboxTool.run_stream forwards only the events that carry data.
NonEmptyOutput(o) == o # ""
SandboxOutputs(outputs) == SelectSeq(outputs, NonEmptyOutput)

\* Tool.run_stream: an async generator handler streams; a coroutine or a
\* plain function gives one chunk, str(result), unless it raises.
LocalOutputs(tool, outputs) ==
    IF tool = "stream" THEN outputs
    ELSE <<IF outputs = <<>> THEN "None" ELSE Head(outputs)>>

LocalRaisesFirst(tool, behaviour) == tool # "stream" /\ behaviour.raises

\* MCPConnection.call_tool_stream.  Without the broadcast pipe it awaits
\* call_tool and yields its result when truthy; call_tool's exception
\* propagates.  With the pipe it yields the non-empty chunks read from it
\* while the call runs; the call's exception is caught and turned into the
\* text "Error: ...", and that text, like the result of a call that did not
\* raise (MCPResult here), is yielded only when no chunk was received.
MCPResult == "o"

MCPOutputs(tool, behaviour) ==
    IF tool = "no_pipe"
    THEN (IF behaviour.raises THEN <<>>
          ELSE SandboxOutputs(<<IF behaviour.outputs = <<>> THEN ""
                                ELSE Head(behaviour.outputs)>>))
    ELSE IF SandboxOutputs(behaviour.outputs) # <<>>
         THEN SandboxOutputs(behaviour.outputs)
         ELSE <<IF behaviour.raises THEN "Error: exception" ELSE MCPResult>>

MCPRaises(tool, behaviour) == tool = "no_pipe" /\ behaviour.raises

\* SandboxTool.run_stream if the resolve wait of the handle were part of the
\* stream: the outputs come first and the timeout after them.
SandboxToolOutputs_ResolveLate(tool, behaviour) ==
    SandboxOutputs(behaviour.outputs)

\* SandboxTool.run_stream: _ensure_healthy comes before the first event.  On
\* a handle that is not running it awaits wait_until_live, which on a
\* LazySandbox is _ensure_resolved first: SandboxError when the timeout
\* passes before get_sandbox_if_ready returned a sandbox.  The health wait of
\* the real sandbox and run_tool can raise as well (behaviour.raises).
SandboxToolOutputs(tool, behaviour) ==
    IF tool = "lazy_timeout" THEN <<>> ELSE SandboxOutputs(behaviour.outputs)

SandboxToolRaises(tool, behaviour) == tool = "lazy_timeout" \/ behaviour.raises

run_tool_stream(entry, name, behaviour) ==
    IF entry.source = "none"
    THEN <<ErrorChunk("Tool not found: " \o name)>>
    ELSE IF entry.source = "sandbox"
    THEN StreamThenFinal(SandboxToolOutputs(entry.tool, behaviour),
                         SandboxToolRaises(entry.tool, behaviour))
    ELSE IF entry.source = "local"
    THEN IF entry.tool \in {"absent", "no_handler"}
         THEN <<ErrorChunk("Tool not found or no handler: " \o name)>>
         ELSE IF LocalRaisesFirst(entry.tool, behaviour)
              THEN <<ErrorChunk("exception")>>
              ELSE StreamThenFinal(LocalOutputs(entry.tool, behaviour.outputs),
                                   behaviour.raises)
    ELSE StreamThenFinal(MCPOutputs(entry.tool, behaviour),
                         MCPRaises(entry.tool, behaviour))

-----------------------------------------------------------------------------
(* Specification SpecTool: one run_tool_stream call, chunk by chunk *)

MaxToolOut == 2

ToolNames == {"", "idle", "t"}

\* What a name can be bound to: a sandbox tool and a connected MCP server
\* are always present when the source map names them (add_sandbox_tool and
\* connect write both maps together).
RegistryEntries ==
    {[source |-> "none", tool |-> tl] : tl \in {"absent", "sync"}}
    \cup {[source |-> "local", tool |-> tl] :
             tl \in {"absent", "no_handler", "stream", "async", "sync"}}
    \cup {[source |-> "sandbox", tool |-> tl] : tl \in {"running", "lazy", "lazy_timeout"}}
    \cup {[source |-> "mcp", tool |-> tl] : tl \in {"no_pipe", "pipe"}}

Behaviours ==
    [outputs : SeqsUpTo({"", "o"}, MaxToolOut), raises : BOOLEAN]

InitTool ==
    /\ CompactIdle
    /\ AgentIdle
    /\ ManagerIdle
    /\ UtilityIdle
    /\ t_pc = "call"
    /\ t_name \in ToolNames
    /\ t_entry \in RegistryEntries
    /\ t_behaviour \in Behaviours
    /\ t_chunks = <<>>

\* The consumer asks for the next chunk and the generator yields it.
ToolYield ==
    /\ t_pc \in {"call", "streaming"}
    /\ Len(t_chunks) < Len(run_tool_stream(t_entry, t_name, t_behaviour))
    /\ t_chunks' = Append(t_chunks,
                     run_tool_stream(t_entry, t_name, t_behaviour)[Len(t_chunks) + 1])
    /\ t_pc' = "streaming"
    /\ UNCHANGED <<t_name, t_entry, t_behaviour>>
    /\ UNCHANGED <<compactVars, agentVars, managerVars, utilityVars>>

\* The generator is exhausted.
ToolReturn ==
    /\ t_pc \in {"call", "streaming"}
    /\ Len(t_chunks) = Len(run_tool_stream(t_entry, t_name, t_behaviour))
    /\ t_pc' = "done"
    /\ UNCHANGED <<t_name, t_entry, t_behaviour, t_chunks>>
    /\ UNCHANGED <<compactVars, agentVars, managerVars, utilityVars>>

NextTool == ToolYield \/ ToolReturn

SpecTool == InitTool /\ [][NextTool]_vars

-----------------------------------------------------------------------------
(* Part 3a: the data of the agent loop                                     *)
(*                                                                         *)
(* A provider chunk carries content, a list of tool-call deltas and a      *)
(* finish_reason; in all of them "" stands for an absent or None value,    *)
(* which the code tells apart only by truthiness.                          *)

Delta(index, id, name, arguments) ==
    [index |-> index, id |-> id, name |-> name, arguments |-> arguments,
     thought_signature |-> ""]

StreamChunk(content, deltas, finish_reason) ==
    [content |-> content, tool_calls |-> deltas, finish_reason |-> finish_reason]

\* Agent.run, one tool-call delta folded into accumulated_tool_calls: the
\* entry of a new index starts from the delta's own id and name.
AccumulateToolCall(acc, tc) ==
    LET base == IF tc.index \in DOMAIN acc THEN acc
                ELSE acc @@ (tc.index :> ToolCall(tc.id, tc.name, ""))
        cur == base[tc.index]
    IN [base EXCEPT ![tc.index] =
           Signed(ToolCall(IF tc.id # "" THEN tc.id ELSE cur.id,
                           IF tc.name # "" THEN tc.name ELSE cur.name,
                           cur.arguments \o tc.arguments),
                  IF tc.thought_signature # "" THEN tc.thought_signature
                  ELSE cur.thought_signature)]

RECURSIVE AccumulateToolCalls(_, _)
AccumulateToolCalls(acc, deltas) ==
    IF deltas = <<>> THEN acc
    ELSE AccumulateToolCalls(AccumulateToolCall(acc, Head(deltas)), Tail(deltas))

\* The calls in descending index order, as if the keys were not sorted
\* ascending.
RECURSIVE SortedByIndex_Descending(_)
SortedByIndex_Descending(calls) ==
    IF DOMAIN calls = {} THEN <<>>
    ELSE LET last == CHOOSE i \in DOMAIN calls : \A j \in DOMAIN calls : i >= j
         IN <<calls[last]>>
              \o SortedByIndex_Descending([i \in DOMAIN calls \ {last} |-> calls[i]])

\* [calls[i] for i in sorted(calls.keys())]
RECURSIVE SortedByIndex(_)
SortedByIndex(calls) ==
    IF DOMAIN calls = {} THEN <<>>
    ELSE LET first == CHOOSE i \in DOMAIN calls : \A j \in DOMAIN calls : i <= j
         IN <<calls[first]>>
              \o SortedByIndex([i \in DOMAIN calls \ {first} |-> calls[i]])

\* The argument texts a model sends in the runs explored: a JSON object
\* with a summary, and a JSON value that is not an object.
SummaryArgs == "{\"summary\": \"s\"}"
NullArgs == "null"

\* json.loads(tool_args_str) if tool_args_str else {}, with {} on a
\* JSONDecodeError: whether the value is a dict, and its "summary" if any.
ParseToolArgs(tool_args_str) ==
    IF tool_args_str = "" THEN [is_dict |-> TRUE, summary |-> ""]
    ELSE IF tool_args_str = SummaryArgs THEN [is_dict |-> TRUE, summary |-> "s"]
    ELSE IF tool_args_str = NullArgs THEN [is_dict |-> FALSE, summary |-> ""]
    ELSE [is_dict |-> TRUE, summary |-> ""]

\* json.dumps({"status": "idle", "summary": summary})
IdleResult(summary) == "{\"status\": \"idle\", \"summary\": \"" \o summary \o "\"}"

\* The events Agent.run yields.  iter and index are not part of the payload:
\* they record the iteration the event was yielded in and the index the
\* provider gave to the tool call the event was yielded for.
\* tc_delta as the loop rebuilds it from a received delta without copying
\* function.thought_signature.
ForwardedDelta_WithoutSignature(tc) == Delta(tc.index, tc.id, tc.name, tc.arguments)

\* tc_delta: the delta yielded on for a received tool-call delta, rebuilt
\* key by key from the keys that are present.
ForwardedDelta(tc) ==
    Signed(Delta(tc.index, tc.id, tc.name, tc.arguments), tc.thought_signature)

ChunkEvent(iter, chunk) ==
    [type |-> "chat.completion.chunk", iter |-> iter, content |-> chunk.content,
     tool_calls |-> [n \in 1..Len(chunk.tool_calls) |-> ForwardedDelta(chunk.tool_calls[n])],
     finish_reason |-> chunk.finish_reason]

ToolResultEvent(iter, index, call_id, name, delta, is_complete) ==
    [type |-> "tool_result", iter |-> iter, index |-> index, tool_call_id |-> call_id,
     tool_name |-> name, delta |-> delta, is_complete |-> is_complete]

AgentDoneEvent(iter, reason, final_content, summary, reported) ==
    [type |-> "agent_done", iter |-> iter, reason |-> reason,
     final_content |-> final_content, summary |-> summary, iteration |-> reported]

-----------------------------------------------------------------------------
(* Part 3b: run_with_thread, which sanitizes the history before the run,   *)
(* follows the events of the run and saves messages after it.              *)

\* The walk if a kept tool message left its id in the valid set.
RECURSIVE SanitizeWalk_NoDiscard(_, _)
SanitizeWalk_NoDiscard(messages, valid_tool_call_ids) ==
    IF messages = <<>> THEN <<>>
    ELSE LET msg == Head(messages)
             rest == Tail(messages)
         IN IF IsAssistantWithToolCalls(msg)
            THEN <<msg>> \o SanitizeWalk_NoDiscard(rest, ToolCallIds(msg) \ {""})
            ELSE IF msg.role = "tool"
            THEN IF msg.tool_call_id # "" /\ msg.tool_call_id \in valid_tool_call_ids
                 THEN <<msg>> \o SanitizeWalk_NoDiscard(rest, valid_tool_call_ids)
                 ELSE SanitizeWalk_NoDiscard(rest, valid_tool_call_ids)
            ELSE <<msg>> \o SanitizeWalk_NoDiscard(rest, {})

\* The walk if a dropped tool message left its id behind as a valid one.
RECURSIVE SanitizeWalk_OrphanAdmitsId(_, _)
SanitizeWalk_OrphanAdmitsId(messages, valid_tool_call_ids) ==
    IF messages = <<>> THEN <<>>
    ELSE LET msg == Head(messages)
             rest == Tail(messages)
         IN IF IsAssistantWithToolCalls(msg)
            THEN <<msg>> \o SanitizeWalk_OrphanAdmitsId(rest, ToolCallIds(msg) \ {""})
            ELSE IF msg.role = "tool"
            THEN IF msg.tool_call_id # "" /\ msg.tool_call_id \in valid_tool_call_ids
                 THEN <<msg>> \o SanitizeWalk_OrphanAdmitsId(
                                     rest, valid_tool_call_ids \ {msg.tool_call_id})
                 ELSE SanitizeWalk_OrphanAdmitsId(
                          rest, valid_tool_call_ids \cup {msg.tool_call_id})
            ELSE <<msg>> \o SanitizeWalk_OrphanAdmitsId(rest, {})

RECURSIVE SanitizeWalk(_, _)
SanitizeWalk(messages, valid_tool_call_ids) ==
    IF messages = <<>> THEN <<>>
    ELSE LET msg == Head(messages)
             rest == Tail(messages)
         IN IF IsAssistantWithToolCalls(msg)
            THEN <<msg>> \o SanitizeWalk(rest, ToolCallIds(msg) \ {""})
            ELSE IF msg.role = "tool"
            THEN IF msg.tool_call_id # "" /\ msg.tool_call_id \in valid_tool_call_ids
                 THEN <<msg>> \o SanitizeWalk(rest, valid_tool_call_ids \ {msg.tool_call_id})
                 ELSE SanitizeWalk(rest, valid_tool_call_ids)
            ELSE <<msg>> \o SanitizeWalk(rest, {})

sanitize_messages_for_openai(messages) == SanitizeWalk(messages, {})

\* run_with_thread, one tool-call delta folded into current_tool_calls: the
\* entry of a new index starts empty.
TrackToolCall(cur, tc) ==
    LET base == IF tc.index \in DOMAIN cur THEN cur
                ELSE cur @@ (tc.index :> ToolCall("", "", ""))
        old == base[tc.index]
    IN [base EXCEPT ![tc.index] =
           Signed(ToolCall(IF tc.id # "" THEN tc.id ELSE old.id,
                           IF tc.name # "" THEN tc.name ELSE old.name,
                           old.arguments \o tc.arguments),
                  IF tc.thought_signature # "" THEN tc.thought_signature
                  ELSE old.thought_signature)]

RECURSIVE TrackToolCalls(_, _)
TrackToolCalls(cur, deltas) ==
    IF deltas = <<>> THEN cur
    ELSE TrackToolCalls(TrackToolCall(cur, Head(deltas)), Tail(deltas))

TrackToolResult(r, event) ==
    LET id == event.tool_call_id
        known == IF id \in DOMAIN r.accumulated_tool_results
                 THEN r.accumulated_tool_results
                 ELSE r.accumulated_tool_results @@ (id :> "")
        results == [known EXCEPT ![id] = @ \o event.delta]
    IN [r EXCEPT !.accumulated_tool_results = results,
                 !.messages_to_save =
                     IF event.is_complete
                     THEN Append(@, Msg("tool", results[id], <<>>, id))
                     ELSE @]

TrackChunk(r, event) ==
    LET content == r.current_assistant_content \o event.content
        calls == TrackToolCalls(r.current_tool_calls, event.tool_calls)
    IN IF event.finish_reason = "tool_calls"
       THEN [r EXCEPT !.messages_to_save =
                          Append(@, Msg("assistant", content, SortedByIndex(calls), "")),
                      !.current_assistant_content = "",
                      !.current_tool_calls = <<>>]
       ELSE IF event.finish_reason = "stop" /\ content # ""
       THEN [r EXCEPT !.messages_to_save = Append(@, Msg("assistant", content, <<>>, "")),
                      !.current_assistant_content = "",
                      !.current_tool_calls = calls]
       ELSE [r EXCEPT !.current_assistant_content = content,
                      !.current_tool_calls = calls]

\* The body of run_with_thread's async for, after the event was yielded on.
Track(r, event) ==
    IF event.type = "tool_result" THEN TrackToolResult(r, event)
    ELSE IF event.type = "chat.completion.chunk" THEN TrackChunk(r, event)
    ELSE [r EXCEPT !.final_content = event.final_content]

\* What run_with_thread saves after the loop.
MessagesSaved(r) ==
    r.messages_to_save
      \o (IF /\ r.final_content # ""
             /\ ~\E i \in 1..Len(r.messages_to_save) :
                    /\ r.messages_to_save[i].role = "assistant"
                    /\ r.messages_to_save[i].content = r.final_content
          THEN <<Msg("assistant", r.final_content, <<>>, "")>>
          ELSE <<>>)

-----------------------------------------------------------------------------
(* Part 3c: Agent.run under run_with_thread, one action per step           *)

\* Model-scale value of Agent.max_iterations (default 50).
max_iterations == 2

\* Provider chunks received in one run, over all its provider calls.
MaxChunks == 3

system_prompt == "s"

\* The thread's stored history: empty, or an earlier tool exchange followed
\* by a tool message that answers no call.
Histories ==
    {<<>>,
     <<Msg("user", "u", <<>>, ""),
       Msg("assistant", "", <<ToolCall("h1", "t", "")>>, ""),
       Msg("tool", "r", <<>>, "h1"),
       Msg("tool", "r", <<>>, "h9")>>}

new_messages == <<Msg("user", "u", <<>>, "")>>

\* Agent.run's first lines: the system prompt is put in front unless the
\* list already starts with a system message.
WithSystemPrompt(messages) ==
    IF system_prompt # "" /\ (messages = <<>> \/ messages[1].role # "system")
    THEN <<Msg("system", system_prompt, <<>>, "")>> \o messages
    ELSE messages

\* The tool-call deltas a provider sends in the runs explored: calls at two
\* indexes, with and without an id, to the local tool and to idle, one of
\* them with a thought signature.
Deltas ==
    {Delta(0, "c1", "t", ""), Delta(0, "c1", "idle", SummaryArgs),
     Delta(0, "", "t", ""),
     Signed(Delta(1, "c2", "t", ""), "g"), Delta(1, "c2", "idle", NullArgs)}

\* The chunks of a provider stream: text, a tool-call delta, or a bare
\* finish_reason.
Chunks ==
    {StreamChunk("x", <<>>, fr) : fr \in {"", "stop"}}
    \cup {StreamChunk("", <<>>, "tool_calls")}
    \cup {StreamChunk("", <<d>>, "") : d \in Deltas}

\* The provider's tool registry during the run: the built-in idle tool, one
\* local tool with a streaming handler, nothing under any other name.
AgentRegistry(name) ==
    IF name = "idle" THEN [source |-> "local", tool |-> "sync"]
    ELSE IF name = "t" THEN [source |-> "local", tool |-> "stream"]
    ELSE [source |-> "none", tool |-> "absent"]

\* What the local tool's handler does in one call: it streams one output;
\* called with arguments that are not a dict, handler(**arguments) raises
\* before anything is produced.  (Every other backend behaviour is explored
\* by SpecTool.)
AgentBehaviours(args) ==
    IF args.is_dict
    THEN {[outputs |-> <<"o">>, raises |-> FALSE]}
    ELSE {[outputs |-> <<>>, raises |-> TRUE]}

\* Message(content=...) accepts a string or None only.
Convertible(messages) ==
    \A i \in 1..Len(messages) : messages[i].content # PartsContent

CompactionResult(provider, messages, summary_ok) ==
    IF provider = "summarize" THEN SummarizationCompact(messages, summary_ok)
    ELSE TruncationCompact(messages)

\* Whether the summarization provider's auxiliary model call succeeds; the
\* truncation provider makes no such call.
SummaryOutcomes(provider) == IF provider = "summarize" THEN BOOLEAN ELSE {FALSE}

InitAgent ==
    /\ CompactIdle
    /\ ToolIdle
    /\ ManagerIdle
    /\ UtilityIdle
    /\ pc = "loop"
    /\ iteration = -1
    /\ \E history \in Histories :
          working_messages =
              WithSystemPrompt(sanitize_messages_for_openai(history \o new_messages))
    /\ context_compaction_attempted = FALSE
    /\ chunks_buffer = <<>>
    /\ full_content = ""
    /\ accumulated_tool_calls = <<>>
    /\ tool_calls = <<>>
    /\ call_pos = 0
    /\ tool_stream = <<>>
    /\ result_content = ""
    /\ error = ""
    /\ events = <<>>
    /\ oplog = <<>>
    /\ chunk_count = 0
    /\ rwt = EmptyRwt
    /\ saved = <<>>

\* yield event: the caller receives it and run_with_thread tracks it.
Emit(event) ==
    /\ events' = Append(events, event)
    /\ rwt' = Track(rwt, event)

\* for iteration in range(max_iterations): the next value, and the call to
\* the provider's stream_completion.
BeginIteration ==
    /\ pc = "loop"
    /\ iteration + 1 < max_iterations
    /\ iteration' = iteration + 1
    /\ full_content' = ""
    /\ accumulated_tool_calls' = <<>>
    /\ chunks_buffer' = <<>>
    /\ oplog' = Append(oplog, [op |-> "stream_completion", iteration |-> iteration + 1,
                               messages |-> working_messages])
    /\ pc' = "streaming"
    /\ UNCHANGED <<working_messages, context_compaction_attempted,
                   tool_calls, call_pos, tool_stream,
                   result_content, error, events, chunk_count, rwt, saved>>
    /\ UNCHANGED <<compactVars, toolVars, managerVars, utilityVars>>

\* The statement after the loop if it reported the loop's last index.
MaxIterationsReached_ReportsIndex ==
    /\ pc = "loop"
    /\ iteration + 1 >= max_iterations
    /\ Emit(AgentDoneEvent(iteration, "max_iterations", "", "", iteration))
    /\ pc' = "done"
    /\ UNCHANGED <<iteration, working_messages, context_compaction_attempted,
                   chunks_buffer, full_content,
                   accumulated_tool_calls, tool_calls, call_pos, tool_stream,
                   result_content, error, oplog, chunk_count, saved>>
    /\ UNCHANGED <<compactVars, toolVars, managerVars, utilityVars>>

\* The range is exhausted: the statement after the loop.
MaxIterationsReached ==
    /\ pc = "loop"
    /\ iteration + 1 >= max_iterations
    /\ Emit(AgentDoneEvent(iteration, "max_iterations", "", "", max_iterations))
    /\ pc' = "done"
    /\ UNCHANGED <<iteration, working_messages, context_compaction_attempted,
                   chunks_buffer, full_content,
                   accumulated_tool_calls, tool_calls, call_pos, tool_stream,
                   result_content, error, oplog, chunk_count, saved>>
    /\ UNCHANGED <<compactVars, toolVars, managerVars, utilityVars>>

ProviderChunk ==
    /\ pc = "streaming"
    /\ chunk_count < MaxChunks
    /\ \E chunk \in Chunks : chunks_buffer' = Append(chunks_buffer, chunk)
    /\ chunk_count' = chunk_count + 1
    /\ UNCHANGED <<pc, iteration, working_messages, context_compaction_attempted,
                   full_content, accumulated_tool_calls,
                   tool_calls, call_pos, tool_stream, result_content, error, events,
                   oplog, rwt, saved>>
    /\ UNCHANGED <<compactVars, toolVars, managerVars, utilityVars>>

ProviderEnd ==
    /\ pc = "streaming"
    /\ pc' = "process"
    /\ UNCHANGED <<iteration, working_messages, context_compaction_attempted,
                   chunks_buffer, full_content,
                   accumulated_tool_calls, tool_calls, call_pos, tool_stream,
                   result_content, error, events, oplog, chunk_count, rwt, saved>>
    /\ UNCHANGED <<compactVars, toolVars, managerVars, utilityVars>>

\* The provider raises, and what was received so far is yielded on first.
ProviderRaise_ForwardsReceived ==
    /\ pc = "streaming"
    /\ \E kind \in {"context_length", "other"} : error' = kind
    /\ pc' = "except"
    /\ IF chunks_buffer # <<>>
       THEN Emit(ChunkEvent(iteration, Head(chunks_buffer)))
       ELSE UNCHANGED <<events, rwt>>
    /\ UNCHANGED <<iteration, working_messages, context_compaction_attempted,
                   chunks_buffer, full_content,
                   accumulated_tool_calls, tool_calls, call_pos, tool_stream,
                   result_content, oplog, chunk_count, saved>>
    /\ UNCHANGED <<compactVars, toolVars, managerVars, utilityVars>>

\* The provider raises, at the call or in the middle of the stream.
ProviderRaise ==
    /\ pc = "streaming"
    /\ \E kind \in {"context_length", "other"} : error' = kind
    /\ pc' = "except"
    /\ UNCHANGED <<iteration, working_messages, context_compaction_attempted,
                   chunks_buffer, full_content,
                   accumulated_tool_calls, tool_calls, call_pos, tool_stream,
                   result_content, events, oplog, chunk_count, rwt, saved>>
    /\ UNCHANGED <<compactVars, toolVars, managerVars, utilityVars>>

\* The handler's outer test without its "not context_compaction_attempted".
CompactionDue_Unguarded == error = "context_length"

\* The handler's outer test.
CompactionDue == error = "context_length" /\ ~context_compaction_attempted

\* Not a context length error, or compaction was already attempted: raise.
Reraise ==
    /\ pc = "except"
    /\ ~CompactionDue
    /\ pc' = "raised"
    /\ UNCHANGED <<iteration, working_messages, context_compaction_attempted,
                   chunks_buffer, full_content, accumulated_tool_calls, tool_calls,
                   call_pos, tool_stream, result_content, error, events, oplog,
                   chunk_count, rwt, saved>>
    /\ UNCHANGED <<compactVars, toolVars, managerVars, utilityVars>>

\* self.context_compaction_provider is read by this handler only, and at
\* most once in a run (after a compaction CompactionDue stays false), so the
\* provider the agent was built with is an input of the step that reads it.
\* No provider configured: raise.
ReraiseNoProvider ==
    /\ pc = "except"
    /\ CompactionDue
    /\ pc' = "raised"
    /\ UNCHANGED <<iteration, working_messages, context_compaction_attempted,
                   chunks_buffer, full_content, accumulated_tool_calls, tool_calls,
                   call_pos, tool_stream, result_content, error, events, oplog,
                   chunk_count, rwt, saved>>
    /\ UNCHANGED <<compactVars, toolVars, managerVars, utilityVars>>

\* A provider is configured: compact() is called and its result converted
\* back to Message objects.  When the conversion succeeds the loop
\* continues; when it raises, the inner handler re-raises the provider's
\* error.
CompactAndContinue ==
    /\ pc = "except"
    /\ CompactionDue
    /\ \E context_compaction_provider \in {"summarize", "truncate"} :
       \E summary_ok \in SummaryOutcomes(context_compaction_provider) :
          LET compacted_messages ==
                  CompactionResult(context_compaction_provider, working_messages,
                                   summary_ok)
              call == [op |-> "compact", iteration |-> iteration,
                       provider |-> context_compaction_provider,
                       summary_ok |-> summary_ok, messages |-> working_messages,
                       result |-> compacted_messages]
          IN /\ oplog' = Append(oplog, call)
             /\ IF Convertible(compacted_messages)
                THEN /\ working_messages' = compacted_messages
                     /\ context_compaction_attempted' = TRUE
                     /\ pc' = "loop"
                ELSE /\ pc' = "raised"
                     /\ UNCHANGED <<working_messages, context_compaction_attempted>>
    /\ UNCHANGED <<iteration, chunks_buffer, full_content, accumulated_tool_calls,
                   tool_calls, call_pos, tool_stream, result_content, error, events,
                   chunk_count, rwt, saved>>
    /\ UNCHANGED <<compactVars, toolVars, managerVars, utilityVars>>

\* One buffered chunk is folded into the iteration's accumulators and
\* yielded in OpenAI format.
ProcessChunk ==
    /\ pc = "process"
    /\ chunks_buffer # <<>>
    /\ LET chunk == Head(chunks_buffer)
       IN /\ full_content' = full_content \o chunk.content
          /\ accumulated_tool_calls' =
                 AccumulateToolCalls(accumulated_tool_calls, chunk.tool_calls)
          /\ Emit(ChunkEvent(iteration, chunk))
    /\ chunks_buffer' = Tail(chunks_buffer)
    /\ UNCHANGED <<pc, iteration, working_messages, context_compaction_attempted,
                   tool_calls, call_pos, tool_stream,
                   result_content, error, oplog, chunk_count, saved>>
    /\ UNCHANGED <<compactVars, toolVars, managerVars, utilityVars>>

\* TextResponse if it added the text to the context as an assistant message.
TextResponse_AppendsAssistant ==
    /\ pc = "process"
    /\ chunks_buffer = <<>>
    /\ DOMAIN accumulated_tool_calls = {}
    /\ Emit(AgentDoneEvent(iteration, "text_response", full_content, "", iteration))
    /\ working_messages' = Append(working_messages, Msg("assistant", full_content, <<>>, ""))
    /\ pc' = "done"
    /\ UNCHANGED <<iteration, context_compaction_attempted,
                   chunks_buffer, full_content,
                   accumulated_tool_calls, tool_calls, call_pos, tool_stream,
                   result_content, error, oplog, chunk_count, saved>>
    /\ UNCHANGED <<compactVars, toolVars, managerVars, utilityVars>>

\* No tool calls: the text response ends the run.
TextResponse ==
    /\ pc = "process"
    /\ chunks_buffer = <<>>
    /\ DOMAIN accumulated_tool_calls = {}
    /\ Emit(AgentDoneEvent(iteration, "text_response", full_content, "", iteration))
    /\ pc' = "done"
    /\ UNCHANGED <<iteration, working_messages, context_compaction_attempted,
                   chunks_buffer, full_content,
                   accumulated_tool_calls, tool_calls, call_pos, tool_stream,
                   result_content, error, oplog, chunk_count, saved>>
    /\ UNCHANGED <<compactVars, toolVars, managerVars, utilityVars>>

\* Tool calls: the assistant message is appended and the calls are run in
\* index order.
AppendAssistant ==
    /\ pc = "process"
    /\ chunks_buffer = <<>>
    /\ DOMAIN accumulated_tool_calls # {}
    /\ tool_calls' = SortedByIndex(accumulated_tool_calls)
    /\ working_messages' =
           Append(working_messages,
                  Msg("assistant", full_content, SortedByIndex(accumulated_tool_calls), ""))
    /\ call_pos' = 1
    /\ pc' = "tools"
    /\ UNCHANGED <<iteration, context_compaction_attempted,
                   chunks_buffer, full_content, accumulated_tool_calls, tool_stream,
                   result_content, error, events, oplog, chunk_count, rwt, saved>>
    /\ UNCHANGED <<compactVars, toolVars, managerVars, utilityVars>>

AtToolCall == pc = "tools" /\ call_pos <= Len(tool_calls)

tool_call == tool_calls[call_pos]

tool_args == ParseToolArgs(tool_call.arguments)

\* The index under which the provider sent the call being executed.
call_index ==
    CHOOSE i \in DOMAIN accumulated_tool_calls : accumulated_tool_calls[i] = tool_call

\* idle with arguments that are not a JSON object: tool_args.get raises.
IdleRaises ==
    /\ AtToolCall
    /\ tool_call.name = "idle"
    /\ ~tool_args.is_dict
    /\ error' = "AttributeError"
    /\ pc' = "raised"
    /\ UNCHANGED <<iteration, working_messages, context_compaction_attempted,
                   chunks_buffer, full_content,
                   accumulated_tool_calls, tool_calls, call_pos, tool_stream,
                   result_content, events, oplog, chunk_count, rwt, saved>>
    /\ UNCHANGED <<compactVars, toolVars, managerVars, utilityVars>>

\* idle: its tool message is appended and its tool_result yielded.
IdleToolResult ==
    /\ AtToolCall
    /\ tool_call.name = "idle"
    /\ tool_args.is_dict
    /\ working_messages' =
           Append(working_messages,
                  Msg("tool", IdleResult(tool_args.summary), <<>>, tool_call.id))
    /\ Emit(ToolResultEvent(iteration, call_index, tool_call.id, tool_call.name,
                            IdleResult(tool_args.summary), TRUE))
    /\ pc' = "idle_done"
    /\ UNCHANGED <<iteration, context_compaction_attempted,
                   chunks_buffer, full_content, accumulated_tool_calls, tool_calls,
                   call_pos, tool_stream, result_content, error, oplog, chunk_count,
                   saved>>
    /\ UNCHANGED <<compactVars, toolVars, managerVars, utilityVars>>

\* IdleDone without its return: after agent_done the loop goes on to the
\* next tool call.
IdleDone_WithoutReturn ==
    /\ pc = "idle_done"
    /\ Emit(AgentDoneEvent(iteration, "idle", "", tool_args.summary, iteration))
    /\ call_pos' = call_pos + 1
    /\ pc' = "tools"
    /\ UNCHANGED <<iteration, working_messages, context_compaction_attempted,
                   chunks_buffer, full_content, accumulated_tool_calls, tool_calls,
                   tool_stream, result_content, error, oplog, chunk_count, saved>>
    /\ UNCHANGED <<compactVars, toolVars, managerVars, utilityVars>>

\* idle: agent_done, then return.
IdleDone ==
    /\ pc = "idle_done"
    /\ Emit(AgentDoneEvent(iteration, "idle", "", tool_args.summary, iteration))
    /\ pc' = "done"
    /\ UNCHANGED <<iteration, working_messages, context_compaction_attempted,
                   chunks_buffer, full_content,
                   accumulated_tool_calls, tool_calls, call_pos, tool_stream,
                   result_content, error, oplog, chunk_count, saved>>
    /\ UNCHANGED <<compactVars, toolVars, managerVars, utilityVars>>

\* Any other tool: run_tool_stream is called.
StartTool ==
    /\ AtToolCall
    /\ tool_call.name # "idle"
    /\ \E behaviour \in AgentBehaviours(tool_args) :
          tool_stream' = run_tool_stream(AgentRegistry(tool_call.name), tool_call.name,
                                         behaviour)
    /\ result_content' = ""
    /\ pc' = "tool_stream"
    /\ UNCHANGED <<iteration, working_messages, context_compaction_attempted,
                   chunks_buffer, full_content,
                   accumulated_tool_calls, tool_calls, call_pos, error, events, oplog,
                   chunk_count, rwt, saved>>
    /\ UNCHANGED <<compactVars, toolVars, managerVars, utilityVars>>

\* One chunk of the tool's stream is forwarded as a tool_result.
ToolChunk ==
    /\ pc = "tool_stream"
    /\ tool_stream # <<>>
    /\ LET chunk == Head(tool_stream)
       IN /\ result_content' = result_content \o chunk.delta
          /\ Emit(ToolResultEvent(iteration, call_index, tool_call.id, tool_call.name,
                                  chunk.delta, chunk.is_complete))
    /\ tool_stream' = Tail(tool_stream)
    /\ UNCHANGED <<pc, iteration, working_messages, context_compaction_attempted,
                   chunks_buffer, full_content,
                   accumulated_tool_calls, tool_calls, call_pos, error, oplog,
                   chunk_count, saved>>
    /\ UNCHANGED <<compactVars, toolVars, managerVars, utilityVars>>

\* ToolDone without the append of the tool message.
ToolDone_WithoutAppend ==
    /\ pc = "tool_stream"
    /\ tool_stream = <<>>
    /\ call_pos' = call_pos + 1
    /\ pc' = "tools"
    /\ UNCHANGED <<iteration, working_messages, context_compaction_attempted,
                   chunks_buffer, full_content, accumulated_tool_calls, tool_calls,
                   tool_stream, result_content, error, events, oplog, chunk_count, rwt,
                   saved>>
    /\ UNCHANGED <<compactVars, toolVars, managerVars, utilityVars>>

\* The stream is exhausted: the tool message is appended.
ToolDone ==
    /\ pc = "tool_stream"
    /\ tool_stream = <<>>
    /\ working_messages' =
           Append(working_messages, Msg("tool", result_content, <<>>, tool_call.id))
    /\ call_pos' = call_pos + 1
    /\ pc' = "tools"
    /\ UNCHANGED <<iteration, context_compaction_attempted,
                   chunks_buffer, full_content, accumulated_tool_calls, tool_calls,
                   tool_stream, result_content, error, events, oplog, chunk_count, rwt,
                   saved>>
    /\ UNCHANGED <<compactVars, toolVars, managerVars, utilityVars>>

\* Every call of the iteration was run: back to the for statement.
EndIteration ==
    /\ pc = "tools"
    /\ call_pos > Len(tool_calls)
    /\ pc' = "loop"
    /\ UNCHANGED <<iteration, working_messages, context_compaction_attempted,
                   chunks_buffer, full_content,
                   accumulated_tool_calls, tool_calls, call_pos, tool_stream,
                   result_content, error, events, oplog, chunk_count, rwt, saved>>
    /\ UNCHANGED <<compactVars, toolVars, managerVars, utilityVars>>

\* The tracked messages saved in a finally clause, whether the loop
\* returned or raised.
SaveMessages_InFinally ==
    /\ pc \in {"done", "raised"}
    /\ saved = <<>>
    /\ saved' = MessagesSaved(rwt)
    /\ pc' = IF pc = "done" THEN "saved" ELSE pc
    /\ UNCHANGED <<iteration, working_messages, context_compaction_attempted,
                   chunks_buffer, full_content,
                   accumulated_tool_calls, tool_calls, call_pos, tool_stream,
                   result_content, error, events, oplog, chunk_count, rwt>>
    /\ UNCHANGED <<compactVars, toolVars, managerVars, utilityVars>>

\* Agent.run returned: run_with_thread saves what it tracked.
SaveMessages ==
    /\ pc = "done"
    /\ saved' = MessagesSaved(rwt)
    /\ pc' = "saved"
    /\ UNCHANGED <<iteration, working_messages, context_compaction_attempted,
                   chunks_buffer, full_content,
                   accumulated_tool_calls, tool_calls, call_pos, tool_stream,
                   result_content, error, events, oplog, chunk_count, rwt>>
    /\ UNCHANGED <<compactVars, toolVars, managerVars, utilityVars>>

NextAgent ==
    \/ BeginIteration \/ MaxIterationsReached
    \/ ProviderChunk \/ ProviderEnd \/ ProviderRaise
    \/ Reraise \/ ReraiseNoProvider \/ CompactAndContinue
    \/ ProcessChunk \/ TextResponse \/ AppendAssistant
    \/ IdleRaises \/ IdleToolResult \/ IdleDone
    \/ StartTool \/ ToolChunk \/ ToolDone \/ EndIteration
    \/ SaveMessages

SpecAgent == InitAgent /\ [][NextAgent]_vars

-----------------------------------------------------------------------------
(* Properties                                                              *)

\* Every tool message answers a tool call of an assistant message that
\* stands earlier in the list.
ToolMessagesAnswerEarlierCall(messages) ==
    \A i \in 1..Len(messages) :
        messages[i].role = "tool" =>
            \E j \in 1..(i - 1) :
                /\ IsAssistantWithToolCalls(messages[j])
                /\ messages[i].tool_call_id \in ToolCallIds(messages[j])

LastEvent == events[Len(events)]

\* The run ended through the idle branch.
EndedByIdle ==
    /\ pc \in {"done", "saved"}
    /\ LastEvent.type = "agent_done"
    /\ LastEvent.reason = "idle"

\* C1: at most one agent_done event is emitted in a run, and no event of the
\* run follows it: an agent_done event is always the last event emitted.
C1_AgentDoneOnceAndLast ==
    \A i \in 1..Len(events) : events[i].type = "agent_done" => i = Len(events)

\* C1 witness: a run that executed a tool, then ended by idle with its
\* agent_done after chunk and tool_result events.
C1_Witness ==
    /\ EndedByIdle
    /\ \E i \in 1..Len(events) :
          events[i].type = "tool_result" /\ events[i].tool_name = "t"

\* The messages the current iteration appended: the working messages from
\* the last assistant message with tool calls on.
LastAssistantPos ==
    CHOOSE i \in 1..Len(working_messages) :
        /\ IsAssistantWithToolCalls(working_messages[i])
        /\ \A j \in (i + 1)..Len(working_messages) :
               ~IsAssistantWithToolCalls(working_messages[j])

AppendedInIteration == SliceFrom(working_messages, LastAssistantPos - 1)

\* The iteration appended the assistant message and then one tool message
\* for each of the first k tool calls, in order, and nothing else.
AnsweredPrefix(k) ==
    /\ Len(AppendedInIteration) = 1 + k
    /\ AppendedInIteration[1] = Msg("assistant", full_content, tool_calls, "")
    /\ \A i \in 1..k :
          /\ AppendedInIteration[1 + i].role = "tool"
          /\ AppendedInIteration[1 + i].tool_call_id = tool_calls[i].id

IdleRaised == pc = "raised" /\ error = "AttributeError"

\* The iteration with tool calls is over: every call was run, or idle ended
\* the run, or idle raised.
ToolIterationOver ==
    \/ pc = "tools" /\ call_pos > Len(tool_calls)
    \/ EndedByIdle
    \/ IdleRaised

IsToolResult(e) == e.type = "tool_result"
IsChunk(e) == e.type = "chat.completion.chunk"

\* The ids carried by the tool-call deltas of a chunk event ("" is a delta
\* without an id key).
DeltaIds(e) == {e.tool_calls[k].id : k \in 1..Len(e.tool_calls)} \ {""}

\* C3: every tool_result event with tool_call_id = c is preceded in the run
\* by a chat.completion.chunk event with a tool-call delta whose id is c.
C3_ToolResultIdAnnounced ==
    \A i \in 1..Len(events) :
        IsToolResult(events[i]) =>
            \E j \in 1..(i - 1) :
                /\ IsChunk(events[j])
                /\ events[i].tool_call_id \in DeltaIds(events[j])

\* C4: within one iteration every chat.completion.chunk event comes before
\* the first tool_result event, and the tool_result events come in
\* tool-call index order, all the events of one call before any event of
\* the next.
C4_ChunksThenToolResultsInCallOrder ==
    \A i \in 1..Len(events) : \A j \in (i + 1)..Len(events) :
        /\ IsToolResult(events[i]) /\ IsChunk(events[j]) =>
               events[i].iter < events[j].iter
        /\ IsToolResult(events[i]) /\ IsToolResult(events[j])
             /\ events[i].iter = events[j].iter =>
               events[i].index <= events[j].index

\* C4 witness: one iteration yielded a chunk, then the tool_results of the
\* call at index 0, then those of the call at index 1.
C4_Witness ==
    \E i, j, k \in 1..Len(events) :
        /\ i < j /\ j < k
        /\ IsChunk(events[i]) /\ IsToolResult(events[j]) /\ IsToolResult(events[k])
        /\ events[i].iter = events[j].iter /\ events[j].iter = events[k].iter
        /\ events[j].index = 0 /\ events[k].index = 1

CompactCalls(log) == {k \in 1..Len(log) : log[k].op = "compact"}

C6_RetryKeepsIteration ==
    \A k \in 1..(Len(oplog) - 1) :
        oplog[k].op = "compact" /\ oplog[k + 1].op = "stream_completion" =>
            oplog[k + 1].iteration = oplog[k].iteration

\* The list C7 describes: leading system messages, the summary message,
\* the suffix kept.
SummarizedList(messages) ==
    LET non_system_messages == NonSystemMessages(messages)
        n == Len(non_system_messages)
        split_point == find_safe_split_point(non_system_messages,
                           (n * SummarizeRatioNum) \div SummarizeRatioDen)
    IN SystemMessages(messages) \o <<SummaryMessage>>
         \o SliceFrom(non_system_messages, split_point)

\* A compaction in which the summarization provider summarized.
Summarized(call) ==
    /\ call.op = "compact"
    /\ call.provider = "summarize"
    /\ SummarizationPath(call.messages, call.summary_ok) = "summarized"

\* C7: after the first provider call's overflow was compacted by a
\* successful summarization, no error is raised by the handler and the
\* working messages are system messages ++ [summary] ++ suffix.
C7_SummarizedThenRetried ==
    Len(oplog) = 2 /\ Summarized(oplog[2]) =>
        /\ pc # "raised"
        /\ working_messages = SummarizedList(oplog[2].messages)

\* C9: the messages run_with_thread saved have every tool message preceded
\* by a saved assistant message carrying a tool call with the same id.
C9_SavedMessagesClean ==
    pc = "saved" => ToolMessagesAnswerEarlierCall(saved)

-----------------------------------------------------------------------------
(* Properties of compact() *)

\* C8 as stated: every list returned by compact() has each tool message's
\* tool_call_id equal to the id of a tool call of an earlier assistant message.
C8_CompactedToolMessagesAnswered ==
    c_pc = "returned" => ToolMessagesAnswerEarlierCall(c_result)

\* Every tool message answers a tool call of some assistant message of the
\* list, wherever it stands.
ToolMessagesAnswerSomeCall(messages) ==
    \A i \in 1..Len(messages) :
        messages[i].role = "tool" =>
            \E j \in 1..Len(messages) :
                /\ IsAssistantWithToolCalls(messages[j])
                /\ messages[i].tool_call_id \in ToolCallIds(messages[j])

\* No tool-call id is used by two assistant messages of the list.
ToolCallIdsUnique(messages) ==
    \A i, j \in 1..Len(messages) :
        i # j /\ IsAssistantWithToolCalls(messages[i])
              /\ IsAssistantWithToolCalls(messages[j]) =>
            ToolCallIds(messages[i]) \cap ToolCallIds(messages[j]) = {}

\* C8 amended: a list that compact() cut (every return but the too-few-
\* messages early return) has each tool message's tool_call_id equal to the
\* id of a tool call of some assistant message of the list; and when the
\* list given uses no tool-call id twice and has every tool message after
\* the assistant message it answers, so has the list returned.
C8_CompactionKeepsToolMessagesAnswered ==
    c_pc = "returned" =>
        /\ c_path # "unchanged" => ToolMessagesAnswerSomeCall(c_result)
        /\ ToolCallIdsUnique(c_messages) /\ ToolMessagesAnswerEarlierCall(c_messages) =>
               ToolMessagesAnswerEarlierCall(c_result)

\* C8 witness: a list with an answered tool message was cut, and the list
\* returned still holds a tool message.
C8_Witness ==
    /\ c_pc = "returned"
    /\ c_path \in {"summarized", "truncated"}
    /\ ToolCallIdsUnique(c_messages)
    /\ ToolMessagesAnswerEarlierCall(c_messages)
    /\ Len(c_result) < Len(c_messages)
    /\ \E i \in 1..Len(c_result) : c_result[i].role = "tool"

\* C24: when the summarization call fails, compact() returns the leading
\* system messages followed by the non-system messages from the safe split
\* point of len - FallbackKeep on (all of them when there are at most
\* FallbackKeep), validated.
C24_FallbackKeepsLastK ==
    c_pc = "returned" /\ c_path = "fallback" =>
        LET non_system_messages == NonSystemMessages(c_messages)
            cutoff == find_safe_split_point(non_system_messages,
                                            Len(non_system_messages) - FallbackKeep)
        IN c_result =
               validate_message_structure(
                   SystemMessages(c_messages) \o SliceFrom(non_system_messages, cutoff))

-----------------------------------------------------------------------------
(* Properties of the tool executor *)

CompleteChunkCount(chunks) == Cardinality({i \in 1..Len(chunks) : chunks[i].is_complete})

\* C10: the sequence produced by run_tool_stream holds exactly one chunk with
\* is_complete = TRUE, and that chunk is its last one; while the sequence is
\* being produced no chunk follows a complete one.
C10_SingleFinalCompleteChunk ==
    /\ \A i \in 1..Len(t_chunks) : t_chunks[i].is_complete => i = Len(t_chunks)
    /\ t_pc = "done" =>
          /\ CompleteChunkCount(t_chunks) = 1
          /\ t_chunks[Len(t_chunks)].is_complete

\* C10 witness: a backend that raised in the middle of its stream, after an
\* output was forwarded.
C10_Witness ==
    /\ t_pc = "done"
    /\ t_behaviour.raises
    /\ Len(t_chunks) >= 2
    /\ t_chunks[1].delta = "o"


\* The call fails: no such tool, no handler, the lazy handle does not
\* resolve, or the backend raises.
ToolFails ==
    \/ t_entry.source = "none"
    \/ t_entry.source = "local" /\ t_entry.tool \in {"absent", "no_handler"}
    \/ t_entry.source = "sandbox" /\ t_entry.tool = "lazy_timeout"
    \/ t_behaviour.raises

StartsWithError(delta) == Len(delta) >= 7 /\ SubSeq(delta, 1, 7) = "Error: "

\* C11: when the execution of the tool fails, the sequence produced by
\* run_tool_stream ends with a chunk that has is_complete = TRUE and a delta
\* beginning with "Error: ".
C11_FailureEndsWithErrorChunk ==
    t_pc = "done" /\ ToolFails =>
        /\ t_chunks[Len(t_chunks)].is_complete
        /\ StartsWithError(t_chunks[Len(t_chunks)].delta)


(***************************************************************************)
(* Properties of the agent loop: how a run ends.                           *)
(***************************************************************************)

StreamCalls(log) == {k \in 1..Len(log) : log[k].op = "stream_completion"}

\* Agent.run has returned or raised.
RunEnded == pc \in {"done", "saved", "raised"}
RunReturned == pc \in {"done", "saved"}

\* What is left of the run, as a number: the iterations the loop can still
\* begin, and within the iteration the chunks the provider's stream can still
\* deliver, the buffered chunks to process, the tool calls to run and the
\* chunks left in the running tool's stream.
RunVariant ==
    LET call_weight == MaxToolOut + 3
        process_base == 4 + (MaxChunks + 1) * call_weight
        iteration_weight == process_base + 2 * MaxChunks + 3
        within ==
            CASE pc \in {"saved", "raised"} -> 0
              [] pc = "done" -> 1
              [] pc \in {"idle_done", "loop"} -> 2
              [] pc = "except" -> 3
              [] pc = "tools" -> 3 + (Len(tool_calls) + 1 - call_pos) * call_weight
              [] pc = "tool_stream" ->
                     4 + (Len(tool_calls) - call_pos) * call_weight + Len(tool_stream)
              [] pc = "process" -> process_base + Len(chunks_buffer)
              [] pc = "streaming" -> process_base + 2 * MaxChunks + 1 - chunk_count
    IN  (max_iterations - iteration) * iteration_weight + within

\* C17: a run makes at most max_iterations calls of the provider's
\* stream_completion, one per iteration of the loop; every step brings it
\* closer to its end and it cannot stop before its end; and a run that
\* returns without a text response or idle having ended it has made
\* max_iterations calls and its last event is agent_done with reason
\* max_iterations and iteration = max_iterations.
C17_EndsWithinMaxIterations ==
    /\ [](/\ Cardinality(StreamCalls(oplog)) = iteration + 1
          /\ Cardinality(StreamCalls(oplog)) <= max_iterations
          /\ RunReturned => LastEvent.type = "agent_done"
          /\ RunReturned /\ LastEvent.reason \notin {"text_response", "idle"} =>
                /\ LastEvent.reason = "max_iterations"
                /\ LastEvent.iteration = max_iterations
                /\ Cardinality(StreamCalls(oplog)) = max_iterations
          /\ RunVariant >= 0
          /\ ~RunEnded => ENABLED NextAgent)
    /\ [][RunVariant' < RunVariant]_vars

\* Every iteration of the run executed a tool and the run returned with
\* reason max_iterations.
C17_Witness ==
    /\ RunReturned
    /\ LastEvent.reason = "max_iterations"
    /\ \A i \in 0..(max_iterations - 1) :
          \E k \in 1..Len(events) :
              /\ IsToolResult(events[k]) /\ events[k].iter = i
              /\ events[k].tool_name = "t" /\ events[k].is_complete

\* The tool of the call is a sandbox tool whose lazy handle runs into the
\* resolve timeout.
LazyResolveTimesOut == t_entry.source = "sandbox" /\ t_entry.tool = "lazy_timeout"

\* C16: when the resolve wait of a lazy handle times out during a sandbox
\* tool call, run_tool_stream produces exactly one chunk for the call, with
\* is_complete = TRUE and a delta beginning with "Error: ", and ends without
\* raising.
C16_LazyTimeoutOneErrorChunk ==
    LazyResolveTimesOut =>
        /\ Len(t_chunks) <= 1
        /\ t_pc = "done" =>
              /\ Len(t_chunks) = 1
              /\ t_chunks[1].is_complete
              /\ StartsWithError(t_chunks[1].delta)

\* The stream of a call whose handle timed out has ended, for a tool that
\* would have produced output.
C16_Witness ==
    /\ LazyResolveTimesOut /\ t_pc = "done"
    /\ SandboxOutputs(t_behaviour.outputs) # <<>>

\* The content deltas of iteration iter among the events evs, concatenated
\* in the order they were yielded.
RECURSIVE IterationContent(_, _)
IterationContent(evs, iter) ==
    IF evs = <<>> THEN ""
    ELSE (IF IsChunk(Head(evs)) /\ Head(evs).iter = iter THEN Head(evs).content ELSE "")
            \o IterationContent(Tail(evs), iter)

\* The provider's stream of the current iteration has ended, its chunks were
\* all yielded on, and none of them carried a tool call.
StreamEndedWithoutToolCalls ==
    /\ pc = "process"
    /\ chunks_buffer = <<>>
    /\ \A k \in 1..Len(events) :
          IsChunk(events[k]) /\ events[k].iter = iteration => events[k].tool_calls = <<>>

\* C18: when the provider's stream of an iteration has ended with no tool
\* call accumulated, the next step of the run yields agent_done with reason
\* text_response, final_content the concatenation of the iteration's content
\* deltas in order and iteration the index of the iteration (the number of
\* provider calls made before it), changes neither the working messages nor
\* the calls made, and ends the run; that agent_done is the only one of the
\* run, its last event, and no tool_result was yielded in its iteration.
C18_TextResponseEndsRun ==
    /\ [][StreamEndedWithoutToolCalls =>
            /\ events' = Append(events,
                   AgentDoneEvent(iteration, "text_response",
                                  IterationContent(events, iteration), "",
                                  Cardinality(StreamCalls(oplog)) - 1))
            /\ working_messages' = working_messages
            /\ oplog' = oplog
            /\ tool_stream' = tool_stream
            /\ pc' = "done"]_vars
    /\ [](\A k \in 1..Len(events) :
            events[k].type = "agent_done" /\ events[k].reason = "text_response" =>
                /\ k = Len(events)
                /\ RunReturned
                /\ \A j \in 1..Len(events) :
                      /\ events[j].type = "agent_done" => j = k
                      /\ IsToolResult(events[j]) => events[j].iter # events[k].iter)

\* A run ended by a text response in its second iteration, whose text came
\* in two deltas.
C18_Witness ==
    /\ RunReturned
    /\ LastEvent.type = "agent_done"
    /\ LastEvent.reason = "text_response"
    /\ LastEvent.iteration = 1
    /\ LastEvent.final_content = "xx"
    /\ Cardinality({k \in 1..Len(events) : IsChunk(events[k]) /\ events[k].iter = 1}) = 2

\* The run is about to execute a tool call named idle.
AtIdleCall == AtToolCall /\ tool_call.name = "idle"

\* C19: a tool call named idle is not dispatched to the tool provider: the
\* run appends one tool message carrying status idle and the summary of the
\* parsed arguments (empty when there is none), yields one tool_result for
\* the call with is_complete true, then agent_done with reason idle, that
\* summary and the iteration, and ends.
C19_IdleEndsRun ==
    /\ [][AtIdleCall =>
            /\ working_messages' =
                   Append(working_messages,
                          Msg("tool", IdleResult(tool_args.summary), <<>>, tool_call.id))
            /\ events' =
                   Append(events,
                          ToolResultEvent(iteration, call_index, tool_call.id, "idle",
                                          IdleResult(tool_args.summary), TRUE))
            /\ tool_stream' = tool_stream
            /\ pc' = "idle_done"]_vars
    /\ [][pc = "idle_done" =>
            /\ events' =
                   Append(events,
                          AgentDoneEvent(iteration, "idle", "", tool_args.summary, iteration))
            /\ working_messages' = working_messages
            /\ pc' = "done"]_vars

\* The tool-call deltas yielded on in iteration iter.
IterationDeltas(iter) ==
    UNION {{events[k].tool_calls[n] : n \in 1..Len(events[k].tool_calls)} :
              k \in {j \in 1..Len(events) : IsChunk(events[j]) /\ events[j].iter = iter}}

\* The position, in the iteration's list of tool calls, of the call the
\* provider sent under index.
CallPosition(iter, index) ==
    Cardinality({d.index : d \in {e \in IterationDeltas(iter) : e.index <= index}})

\* The deltas of the iteration that carried a thought signature.
SignedDeltas(iter) == {d \in IterationDeltas(iter) : d.thought_signature # ""}

\* The delta yielded on for each received delta has its index and its
\* thought signature.
SignatureForwarded ==
    [][pc = "process" /\ chunks_buffer # <<>> =>
          /\ Len(events') = Len(events) + 1
          /\ LET received == Head(chunks_buffer).tool_calls
                 forwarded == events'[Len(events')].tool_calls
             IN /\ Len(forwarded) = Len(received)
                /\ \A n \in 1..Len(received) :
                      /\ forwarded[n].index = received[n].index
                      /\ forwarded[n].thought_signature = received[n].thought_signature]_vars

\* The assistant message appended for an iteration has, on each call, the
\* thought signature received for it.
SignatureInWorkingMessage ==
    [][pc = "process" /\ chunks_buffer = <<>> /\ IterationDeltas(iteration) # {} =>
          /\ Len(working_messages') = Len(working_messages) + 1
          /\ LET msg == working_messages'[Len(working_messages')]
             IN /\ msg.role = "assistant"
                /\ \A d \in SignedDeltas(iteration) :
                      /\ CallPosition(iteration, d.index) <= Len(msg.tool_calls)
                      /\ msg.tool_calls[CallPosition(iteration, d.index)].thought_signature
                            = d.thought_signature]_vars

\* Iteration iter's thought signatures are on an assistant message among
\* saved_messages, each on the call at its position.
SignaturesSaved(iter, saved_messages) ==
    \A d \in SignedDeltas(iter) :
        \E k \in 1..Len(saved_messages) :
            /\ saved_messages[k].role = "assistant"
            /\ CallPosition(iter, d.index) <= Len(saved_messages[k].tool_calls)
            /\ saved_messages[k].tool_calls[CallPosition(iter, d.index)].thought_signature
                  = d.thought_signature

\* C22: a thought signature received on a tool-call delta at some index is
\* on the delta yielded on to the caller, on that call of the assistant
\* message appended to the working messages, and on that call of the
\* assistant message run_with_thread saves for the turn.
C22_ThoughtSignatureCarried ==
    /\ SignatureForwarded
    /\ SignatureInWorkingMessage
    /\ [](pc = "saved" => \A iter \in 0..iteration : SignaturesSaved(iter, saved))

\* The index of the last assistant message of messages, 0 if there is none.
LastAssistant(messages) ==
    LET assistants == {i \in 1..Len(messages) : messages[i].role = "assistant"}
    IN IF assistants = {} THEN 0
       ELSE CHOOSE i \in assistants : \A j \in assistants : j <= i

\* C26: at the end of run_with_thread the final_content of agent_done is
\* saved as one more assistant message, after the messages tracked during
\* the run, if and only if it is not empty and is not the content of the
\* last assistant message tracked.
C26_FinalContentSavedUnlessLast ==
    pc = "saved" =>
        LET tracked == rwt.messages_to_save
            final_content == LastEvent.final_content
            last == LastAssistant(tracked)
        IN IF final_content # "" /\ (last = 0 \/ tracked[last].content # final_content)
           THEN saved = Append(tracked, Msg("assistant", final_content, <<>>, ""))
           ELSE saved = tracked

\* The assistant messages the loop appended to the working messages, oldest
\* first: those after the messages of the first provider call.
AppendedAssistants ==
    SelectSeq(SliceFrom(working_messages, Len(oplog[1].messages)),
              IsAssistantWithToolCalls)

\* C30: in a run that ended without compaction the assistant messages with
\* tool calls that run_with_thread saved are, in order, the assistant
\* messages the loop appended to the working messages: one for each
\* iteration with tool calls, with its content and its tool calls.
C30_SavedAssistantsAreAppended ==
    pc = "saved" /\ ~context_compaction_attempted =>
        SelectSeq(saved, IsAssistantWithToolCalls) = AppendedAssistants

\* The provider's stream of iteration i raised: the handler is running or
\* has re-raised, or it called compact() and the loop went on.
StreamRaisedIn(i) ==
    \/ \E k \in 1..Len(oplog) : oplog[k].op = "compact" /\ oplog[k].iteration = i
    \/ pc \in {"except", "raised"} /\ error \in {"context_length", "other"} /\ iteration = i

ChunkEvents == SelectSeq(events, IsChunk)

\* C35: no chunk event of an iteration whose stream raised is yielded to
\* the caller, and none of an iteration whose stream is still being
\* received.
C35_NoChunkOfRaisedStream ==
    \A k \in 1..Len(events) :
        IsChunk(events[k]) =>
            /\ ~StreamRaisedIn(events[k].iter)
            /\ ~(pc = "streaming" /\ events[k].iter = iteration)

\* The stream of iteration 0 raised after one chunk, the messages were
\* compacted, and iteration 1's one chunk was forwarded.
C35_Witness ==
    /\ StreamRaisedIn(0)
    /\ iteration = 1 /\ pc = "process" /\ chunks_buffer = <<>>
    /\ chunk_count = 2
    /\ Len(ChunkEvents) = 1

\* What run_with_thread saves before the loop: the new messages of role
\* user or system, in order.
SavedBeforeLoop ==
    SelectSeq(new_messages, LAMBDA msg : msg.role \in {"user", "system"})

\* The messages the run has persisted to the thread so far.
PersistedByRun == SavedBeforeLoop \o saved

\* C39: if the agent loop raises during run_with_thread, no assistant or
\* tool message of the run is persisted to the thread, and the new
\* user/system messages, saved before the loop, are.
C39_RaisedRunPersistsOnlyNewMessages ==
    pc = "raised" =>
        /\ \A i \in 1..Len(PersistedByRun) :
              PersistedByRun[i].role \notin {"assistant", "tool"}
        /\ PersistedByRun = SavedBeforeLoop
        /\ SavedBeforeLoop # <<>>

\* The loop raised after run_with_thread had tracked an assistant message
\* and a tool message to save.
C39_Witness ==
    /\ pc = "raised"
    /\ \E i \in 1..Len(rwt.messages_to_save) : rwt.messages_to_save[i].role = "assistant"
    /\ \E i \in 1..Len(rwt.messages_to_save) : rwt.messages_to_save[i].role = "tool"

(***************************************************************************)
(* Part 4: the sandbox manager (src/src/sandbox/manager.py).               *)
(*                                                                         *)
(* The manager's coroutines run on one event loop: the code between two    *)
(* awaits is one atomic step, and at every await any other coroutine may   *)
(* run.  Each action below is one such step: it completes the await the    *)
(* coroutine is suspended at, with an outcome chosen by the environment    *)
(* (the sandbox is healthy or not, the provider or the store answers or    *)
(* raises), and runs the code up to the next await.  A handle is           *)
(* identified by the id of its sandbox.                                    *)
(***************************************************************************)

\* How many sandboxes the provider can create in one run of the model.
MaxSandboxes == 2

\* DaytonaSandbox.connect and DaytonaSandbox.restart_sandbox: both wrap the
\* id they are given.
connect(sandbox_id) == sandbox_id
restart_sandbox(sandbox_id) == sandbox_id

\* update_thread_sandbox_id that does not write.
update_thread_sandbox_id_Lost(store, thread_id, sandbox_id) == store

update_thread_sandbox_id(store, thread_id, sandbox_id) ==
    [store EXCEPT ![thread_id] = sandbox_id]

\* The finally clause of the task if it ran only when nothing was raised.
TaskFinally_OnSuccessOnly(pending, thread_id, raised) ==
    IF raised THEN pending ELSE pending \ {thread_id}

\* The finally clause of _ensure_sandbox_task.
TaskFinally(pending, thread_id, raised) ==
    pending \ {thread_id}

Call(c) == manager_calls[c]
SetCall(c, rec) == manager_calls' = [manager_calls EXCEPT ![c] = rec]
EndCall(c) == manager_calls' = [manager_calls EXCEPT ![c] = NoCall]

\* The operations in progress: the callers inside a coroutine and the
\* background tasks that have not finished.
CallsInProgress == {c \in Callers : Call(c).op # "none"}
TasksInProgress == {t \in Threads : task[t].pc # "none"}

\* The record of a handle being handed out by the step being taken.
Handle(op, thread_id, sandbox, path, returned) ==
    [op |-> op, thread |-> thread_id, sandbox |-> sandbox, path |-> path,
     returned |-> returned, claimed |-> sandbox \in claimed',
     bound |-> thread_sandbox_id'[thread_id], overlapped |-> overlapped']

InitManager ==
    /\ CompactIdle /\ ToolIdle /\ AgentIdle /\ UtilityIdle
    /\ pending_threads = {}
    /\ ready_sandboxes = [t \in Threads |-> None]
    /\ task = [t \in Threads |-> NoTask]
    /\ manager_calls = [c \in Callers |-> NoCall]
    /\ handed_out = NoHandle /\ overlapped = FALSE
    \* the thread has no sandbox yet, or one bound by an earlier run of the
    \* service, claimed or not
    /\ \/ /\ thread_sandbox_id = [t \in Threads |-> None]
          /\ created = 0 /\ claimed = {}
       \/ /\ thread_sandbox_id = [t \in Threads |-> 1]
          /\ created = 1 /\ claimed \in {{}, {1}}


\* ensure_sandbox_background: synchronous.  Nothing happens when the thread
\* is already pending; otherwise the thread becomes pending and the task is
\* created.
EnsureSandboxBackground(t) ==
    /\ t \notin pending_threads
    /\ pending_threads' = pending_threads \cup {t}
    /\ task' = [task EXCEPT ![t] = [pc |-> "get_id", sandbox |-> None,
                                    steps |-> {}, inserted |-> FALSE]]
    /\ overlapped' = (overlapped \/ CallsInProgress # {})
    /\ UNCHANGED <<ready_sandboxes, thread_sandbox_id,
                   claimed, created, manager_calls>>
    /\ handed_out' = NoHandle
    /\ UNCHANGED <<compactVars, toolVars, agentVars, utilityVars>>

\* The task goes on to its next await.
TaskGoes(t, next, sandbox, step) ==
    task' = [task EXCEPT ![t] = [pc |-> next, sandbox |-> sandbox,
                                 steps |-> task[t].steps \cup {step},
                                 inserted |-> FALSE]]

\* An await of the task raised: the except clause logs, the finally clause
\* runs and the task ends.
TaskRaise(t) ==
    /\ task[t].pc # "none"
    /\ task' = [task EXCEPT ![t] = NoTask]
    /\ pending_threads' = TaskFinally(pending_threads, t, TRUE)
    /\ UNCHANGED <<ready_sandboxes, thread_sandbox_id, claimed,
                   created, manager_calls, overlapped>>
    /\ handed_out' = NoHandle
    /\ UNCHANGED <<compactVars, toolVars, agentVars, utilityVars>>

\* sandbox_id = await self._db.get_thread_sandbox_id(thread_id), and the
\* branch on it: connect is immediate, create is the next await.
TaskGetId(t) ==
    /\ task[t].pc = "get_id"
    /\ IF thread_sandbox_id[t] = None
       THEN TaskGoes(t, "create", None, "get_id")
       ELSE TaskGoes(t, "wait_until_live", connect(thread_sandbox_id[t]), "get_id")
    /\ UNCHANGED <<pending_threads, ready_sandboxes, thread_sandbox_id,
                   claimed, created, manager_calls, overlapped>>
    /\ handed_out' = NoHandle
    /\ UNCHANGED <<compactVars, toolVars, agentVars, utilityVars>>

\* sandbox = await DaytonaSandbox.create(self._env_id)
TaskCreate(t) ==
    /\ task[t].pc = "create"
    /\ created < MaxSandboxes
    /\ created' = created + 1
    /\ TaskGoes(t, "update", created + 1, "create")
    /\ UNCHANGED <<pending_threads, ready_sandboxes, thread_sandbox_id,
                   claimed, manager_calls, overlapped>>
    /\ handed_out' = NoHandle
    /\ UNCHANGED <<compactVars, toolVars, agentVars, utilityVars>>

\* await self._db.update_thread_sandbox_id(thread_id, sandbox.id)
TaskUpdate(t) ==
    /\ task[t].pc = "update"
    /\ thread_sandbox_id' =
           update_thread_sandbox_id(thread_sandbox_id, t, task[t].sandbox)
    /\ TaskGoes(t, "wait_until_live", task[t].sandbox, "update")
    /\ UNCHANGED <<pending_threads, ready_sandboxes, claimed,
                   created, manager_calls, overlapped>>
    /\ handed_out' = NoHandle
    /\ UNCHANGED <<compactVars, toolVars, agentVars, utilityVars>>

\* await sandbox.wait_until_live()
TaskWaitUntilLive(t) ==
    /\ task[t].pc = "wait_until_live"
    /\ TaskGoes(t, "build_claim_config", task[t].sandbox, "wait_until_live")
    /\ UNCHANGED <<pending_threads, ready_sandboxes, thread_sandbox_id,
                   claimed, created, manager_calls, overlapped>>
    /\ handed_out' = NoHandle
    /\ UNCHANGED <<compactVars, toolVars, agentVars, utilityVars>>

\* claim_config = await self._build_claim_config(thread_id, sandbox.id)
TaskBuildClaimConfig(t) ==
    /\ task[t].pc = "build_claim_config"
    /\ TaskGoes(t, "claim", task[t].sandbox, "build_claim_config")
    /\ UNCHANGED <<pending_threads, ready_sandboxes, thread_sandbox_id,
                   claimed, created, manager_calls, overlapped>>
    /\ handed_out' = NoHandle
    /\ UNCHANGED <<compactVars, toolVars, agentVars, utilityVars>>

\* claim_result = await sandbox.claim(claim_config); then the handle goes in
\* the ready cache, the finally clause runs and the task ends.
TaskClaim(t) ==
    /\ task[t].pc = "claim"
    /\ claimed' = claimed \cup {task[t].sandbox}
    /\ ready_sandboxes' = [ready_sandboxes EXCEPT ![t] = task[t].sandbox]
    /\ task' = [task EXCEPT ![t] = [pc |-> "none", sandbox |-> task[t].sandbox,
                                    steps |-> task[t].steps \cup {"claim"},
                                    inserted |-> TRUE]]
    /\ pending_threads' = TaskFinally(pending_threads, t, FALSE)
    /\ UNCHANGED <<thread_sandbox_id, created, manager_calls, overlapped>>
    /\ handed_out' = Handle("_ensure_sandbox_task", t, task[t].sandbox, "task", FALSE)
    /\ UNCHANGED <<compactVars, toolVars, agentVars, utilityVars>>

\* One step of _ensure_sandbox_task.
TaskStep(t) ==
    \/ TaskGetId(t) \/ TaskCreate(t) \/ TaskUpdate(t) \/ TaskWaitUntilLive(t)
    \/ TaskBuildClaimConfig(t) \/ TaskClaim(t) \/ TaskRaise(t)


\* A coroutine called by c goes on to its next await.
Goes(c, next, sandbox_id, sandbox, path) ==
    SetCall(c, [Call(c) EXCEPT !.pc = next, !.sandbox_id = sandbox_id,
                               !.sandbox = sandbox, !.path = path])

\* del self._ready_sandboxes[thread_id] is possible: the entry is there.
\* (When another coroutine removed it during the health check the statement
\* raises KeyError.)
CanDelete(t) == ready_sandboxes[t] # None

\* An await of a caller's coroutine raised and nothing catches it: the call
\* ends with the exception.  These are the awaits outside any try block:
\* every await of ensure_sandbox but the short health wait, the create and
\* update of get_or_create_sandbox_ref, the claim-config build of
\* get_sandbox_if_ready on the cached handle; and the del of an entry that
\* is gone.
CallRaises(c) ==
    /\ \/ /\ Call(c).op = "ensure_sandbox"
          /\ Call(c).pc \in {"restart", "create", "update", "wait_until_live",
                             "build_claim_config", "claim"}
       \/ /\ Call(c).op = "get_or_create_sandbox_ref"
          /\ Call(c).pc \in {"poll", "create", "update"}
       \/ /\ Call(c).op = "get_sandbox_if_ready"
          /\ Call(c).pc = "cache_build_claim_config"
    /\ EndCall(c)
    /\ UNCHANGED <<pending_threads, ready_sandboxes, thread_sandbox_id,
                   claimed, created, task, overlapped>>
    /\ handed_out' = NoHandle
    /\ UNCHANGED <<compactVars, toolVars, agentVars, utilityVars>>

\* A caller enters op for thread t: the code up to the first await runs at
\* once.  All three coroutines begin by looking in the ready cache.
Enters(c, op, t, pc_cached, pc_absent) ==
    /\ Call(c).op = "none" /\ op \in CallerOps[c]
    /\ overlapped' = (overlapped \/ CallsInProgress # {} \/ TasksInProgress # {})
    /\ SetCall(c, [op |-> op, thread |-> t, sandbox_id |-> None,
                   sandbox |-> ready_sandboxes[t], path |-> "",
                   pc |-> IF ready_sandboxes[t] # None THEN pc_cached ELSE pc_absent])

\* ensure_sandbox: called; the cached handle's check_health or the store's
\* get_thread_sandbox_id is awaited.
EnsureSandbox(c, t) ==
    /\ Enters(c, "ensure_sandbox", t, "cache_check_health", "get_id")
    /\ UNCHANGED <<pending_threads, ready_sandboxes, thread_sandbox_id,
                   claimed, created, task>>
    /\ handed_out' = NoHandle
    /\ UNCHANGED <<compactVars, toolVars, agentVars, utilityVars>>

\* if await sandbox.check_health(): return sandbox
\* del self._ready_sandboxes[thread_id]
EnsureCacheCheckHealth(c) ==
    /\ Call(c).op = "ensure_sandbox" /\ Call(c).pc = "cache_check_health"
    /\ \E healthy \in BOOLEAN :
         IF healthy
         THEN /\ EndCall(c)
              /\ UNCHANGED ready_sandboxes
              /\ UNCHANGED <<thread_sandbox_id, claimed, overlapped>>
              /\ handed_out' = Handle("ensure_sandbox", Call(c).thread,
                                      Call(c).sandbox, "cache", TRUE)
         ELSE /\ IF CanDelete(Call(c).thread)
                 THEN /\ ready_sandboxes' =
                             [ready_sandboxes EXCEPT ![Call(c).thread] = None]
                      /\ Goes(c, "get_id", None, None, "")
                 ELSE /\ EndCall(c)
                      /\ UNCHANGED ready_sandboxes
              /\ UNCHANGED <<thread_sandbox_id, claimed, overlapped>>
              /\ handed_out' = NoHandle
    /\ UNCHANGED <<pending_threads, created, task>>
    /\ UNCHANGED <<compactVars, toolVars, agentVars, utilityVars>>

\* sandbox_id = await self._db.get_thread_sandbox_id(thread_id): None leads
\* to _create_and_claim, an id to connect and check_health.
EnsureGetId(c) ==
    /\ Call(c).op = "ensure_sandbox" /\ Call(c).pc = "get_id"
    /\ LET sandbox_id == thread_sandbox_id[Call(c).thread]
       IN  IF sandbox_id = None
           THEN Goes(c, "create", None, None, "create")
           ELSE Goes(c, "check_health", sandbox_id, connect(sandbox_id), "")
    /\ UNCHANGED <<pending_threads, ready_sandboxes, thread_sandbox_id,
                   claimed, created, task, overlapped>>
    /\ handed_out' = NoHandle
    /\ UNCHANGED <<compactVars, toolVars, agentVars, utilityVars>>

\* The handle goes into the ready cache and is returned.
CacheAndReturn(c, path) ==
    /\ ready_sandboxes' = [ready_sandboxes EXCEPT ![Call(c).thread] = Call(c).sandbox]
    /\ EndCall(c)
    /\ handed_out' = Handle(Call(c).op, Call(c).thread, Call(c).sandbox, path, TRUE)

\* if await sandbox.check_health(): cache and return (case 2); otherwise
\* wait_until_live(timeout=60) is awaited.
EnsureCheckHealth(c) ==
    /\ Call(c).op = "ensure_sandbox" /\ Call(c).pc = "check_health"
    /\ UNCHANGED <<thread_sandbox_id, claimed, overlapped>>
    /\ \E healthy \in BOOLEAN :
         IF healthy
         THEN CacheAndReturn(c, "healthy")
         ELSE /\ Goes(c, "short_wait", Call(c).sandbox_id, Call(c).sandbox, "")
              /\ UNCHANGED <<ready_sandboxes>>
              /\ handed_out' = NoHandle
    /\ UNCHANGED <<pending_threads, created, task>>
    /\ UNCHANGED <<compactVars, toolVars, agentVars, utilityVars>>

\* await sandbox.wait_until_live(timeout=60): cache and return when it
\* succeeds; when it raises, restart_sandbox is awaited (case 3).
EnsureShortWait(c) ==
    /\ Call(c).op = "ensure_sandbox" /\ Call(c).pc = "short_wait"
    /\ UNCHANGED <<thread_sandbox_id, claimed, overlapped>>
    /\ \E live \in BOOLEAN :
         IF live
         THEN CacheAndReturn(c, "short_wait")
         ELSE /\ Goes(c, "restart", Call(c).sandbox_id, Call(c).sandbox, "restart")
              /\ UNCHANGED <<ready_sandboxes>>
              /\ handed_out' = NoHandle
    /\ UNCHANGED <<pending_threads, created, task>>
    /\ UNCHANGED <<compactVars, toolVars, agentVars, utilityVars>>

\* _restart_and_claim: sandbox = await DaytonaSandbox.restart_sandbox(...);
\* the store is updated next if the id changed.
EnsureRestart(c) ==
    /\ Call(c).op = "ensure_sandbox" /\ Call(c).pc = "restart"
    /\ LET sandbox == restart_sandbox(Call(c).sandbox_id)
       IN  Goes(c, IF sandbox # Call(c).sandbox_id THEN "update" ELSE "wait_until_live",
                Call(c).sandbox_id, sandbox, "restart")
    /\ UNCHANGED <<pending_threads, ready_sandboxes, thread_sandbox_id,
                   claimed, created, task, overlapped>>
    /\ handed_out' = NoHandle
    /\ UNCHANGED <<compactVars, toolVars, agentVars, utilityVars>>

\* _create_and_claim: the sandbox comes from the warm pool or from
\* DaytonaSandbox.create; either way it is one no thread is bound to.
EnsureCreate(c) ==
    /\ Call(c).op = "ensure_sandbox" /\ Call(c).pc = "create"
    /\ created < MaxSandboxes
    /\ created' = created + 1
    /\ Goes(c, "update", None, created + 1, "create")
    /\ UNCHANGED <<pending_threads, ready_sandboxes, thread_sandbox_id,
                   claimed, task, overlapped>>
    /\ handed_out' = NoHandle
    /\ UNCHANGED <<compactVars, toolVars, agentVars, utilityVars>>

\* await self._db.update_thread_sandbox_id(thread_id, sandbox.id), in
\* _create_and_claim and in _restart_and_claim.
EnsureUpdate(c) ==
    /\ Call(c).op = "ensure_sandbox" /\ Call(c).pc = "update"
    /\ thread_sandbox_id' =
           update_thread_sandbox_id(thread_sandbox_id, Call(c).thread, Call(c).sandbox)
    /\ Goes(c, "wait_until_live", Call(c).sandbox_id, Call(c).sandbox, Call(c).path)
    /\ UNCHANGED <<pending_threads, ready_sandboxes, claimed,
                   created, task, overlapped>>
    /\ handed_out' = NoHandle
    /\ UNCHANGED <<compactVars, toolVars, agentVars, utilityVars>>

\* await sandbox.wait_until_live(), then await self._build_claim_config(...)
EnsureWaitUntilLive(c) ==
    /\ Call(c).op = "ensure_sandbox" /\ Call(c).pc = "wait_until_live"
    /\ Goes(c, "build_claim_config", Call(c).sandbox_id, Call(c).sandbox, Call(c).path)
    /\ UNCHANGED <<pending_threads, ready_sandboxes, thread_sandbox_id,
                   claimed, created, task, overlapped>>
    /\ handed_out' = NoHandle
    /\ UNCHANGED <<compactVars, toolVars, agentVars, utilityVars>>

EnsureBuildClaimConfig(c) ==
    /\ Call(c).op = "ensure_sandbox" /\ Call(c).pc = "build_claim_config"
    /\ Goes(c, "claim", Call(c).sandbox_id, Call(c).sandbox, Call(c).path)
    /\ UNCHANGED <<pending_threads, ready_sandboxes, thread_sandbox_id,
                   claimed, created, task, overlapped>>
    /\ handed_out' = NoHandle
    /\ UNCHANGED <<compactVars, toolVars, agentVars, utilityVars>>

\* await sandbox.claim(claim_config); back in ensure_sandbox the handle is
\* cached and returned.
EnsureClaim(c) ==
    /\ Call(c).op = "ensure_sandbox" /\ Call(c).pc = "claim"
    /\ claimed' = claimed \cup {Call(c).sandbox}
    /\ UNCHANGED <<thread_sandbox_id, overlapped>>
    /\ CacheAndReturn(c, Call(c).path)
    /\ UNCHANGED <<pending_threads, created, task>>
    /\ UNCHANGED <<compactVars, toolVars, agentVars, utilityVars>>

EnsureSandboxStep(c) ==
    \/ EnsureCacheCheckHealth(c) \/ EnsureGetId(c) \/ EnsureCheckHealth(c)
    \/ EnsureShortWait(c) \/ EnsureRestart(c) \/ EnsureCreate(c)
    \/ EnsureUpdate(c) \/ EnsureWaitUntilLive(c) \/ EnsureBuildClaimConfig(c)
    \/ EnsureClaim(c)


\* get_or_create_sandbox_ref: called.  A cached handle is returned at once;
\* otherwise the store is read, in the polling loop when the thread is
\* pending.
GetOrCreateSandboxRef(c, t) ==
    /\ Call(c).op = "none" /\ "get_or_create_sandbox_ref" \in CallerOps[c]
    /\ overlapped' = (overlapped \/ CallsInProgress # {} \/ TasksInProgress # {})
    /\ IF ready_sandboxes[t] # None
       THEN UNCHANGED manager_calls
       ELSE SetCall(c, [op |-> "get_or_create_sandbox_ref", thread |-> t,
                        sandbox_id |-> None, sandbox |-> None, path |-> "",
                        pc |-> IF t \in pending_threads THEN "poll" ELSE "get_id"])
    /\ UNCHANGED <<pending_threads, ready_sandboxes, thread_sandbox_id,
                   claimed, created, task>>
    /\ handed_out' = NoHandle
    /\ UNCHANGED <<compactVars, toolVars, agentVars, utilityVars>>

\* The polling loop: the handle of the id is returned as soon as the store
\* has one.  (Running out of the 50 polls is the RuntimeError of CallRaises.)
RefPoll(c) ==
    /\ Call(c).op = "get_or_create_sandbox_ref" /\ Call(c).pc = "poll"
    /\ thread_sandbox_id[Call(c).thread] # None
    /\ EndCall(c)
    /\ UNCHANGED <<pending_threads, ready_sandboxes, thread_sandbox_id,
                   claimed, created, task, overlapped>>
    /\ handed_out' = NoHandle
    /\ UNCHANGED <<compactVars, toolVars, agentVars, utilityVars>>

\* sandbox_id = await self._db.get_thread_sandbox_id(thread_id): an id is
\* connected to and returned, None leads to create.
RefGetId(c) ==
    /\ Call(c).op = "get_or_create_sandbox_ref" /\ Call(c).pc = "get_id"
    /\ IF thread_sandbox_id[Call(c).thread] # None
       THEN EndCall(c)
       ELSE Goes(c, "create", None, None, "create")
    /\ UNCHANGED <<pending_threads, ready_sandboxes, thread_sandbox_id,
                   claimed, created, task, overlapped>>
    /\ handed_out' = NoHandle
    /\ UNCHANGED <<compactVars, toolVars, agentVars, utilityVars>>

\* sandbox = await DaytonaSandbox.create(self._env_id)
RefCreate(c) ==
    /\ Call(c).op = "get_or_create_sandbox_ref" /\ Call(c).pc = "create"
    /\ created < MaxSandboxes
    /\ created' = created + 1
    /\ Goes(c, "update", None, created + 1, "create")
    /\ UNCHANGED <<pending_threads, ready_sandboxes, thread_sandbox_id,
                   claimed, task, overlapped>>
    /\ handed_out' = NoHandle
    /\ UNCHANGED <<compactVars, toolVars, agentVars, utilityVars>>

\* await self._db.update_thread_sandbox_id(thread_id, sandbox.id); return
RefUpdate(c) ==
    /\ Call(c).op = "get_or_create_sandbox_ref" /\ Call(c).pc = "update"
    /\ thread_sandbox_id' =
           update_thread_sandbox_id(thread_sandbox_id, Call(c).thread, Call(c).sandbox)
    /\ EndCall(c)
    /\ UNCHANGED <<pending_threads, ready_sandboxes, claimed,
                   created, task, overlapped>>
    /\ handed_out' = NoHandle
    /\ UNCHANGED <<compactVars, toolVars, agentVars, utilityVars>>

RefStep(c) == RefPoll(c) \/ RefGetId(c) \/ RefCreate(c) \/ RefUpdate(c)

\* get_sandbox_if_ready: called; the cached handle's get_health_status or
\* the store's get_thread_sandbox_id is awaited.
GetSandboxIfReady(c, t) ==
    /\ Enters(c, "get_sandbox_if_ready", t, "cache_health_status", "get_id")
    /\ UNCHANGED <<pending_threads, ready_sandboxes, thread_sandbox_id,
                   claimed, created, task>>
    /\ handed_out' = NoHandle
    /\ UNCHANGED <<compactVars, toolVars, agentVars, utilityVars>>

\* health_status = await sandbox.get_health_status() on the cached handle:
\* healthy and claimed returns it, healthy and not claimed goes on to claim
\* it, anything else deletes the entry and reads the store.
ReadyCacheHealthStatus(c) ==
    /\ Call(c).op = "get_sandbox_if_ready" /\ Call(c).pc = "cache_health_status"
    /\ UNCHANGED <<thread_sandbox_id, claimed, overlapped>>
    /\ \E healthy \in BOOLEAN :
         IF healthy
         THEN /\ UNCHANGED ready_sandboxes
              /\ IF Call(c).sandbox \in claimed
                 THEN /\ EndCall(c)
                      /\ handed_out' = Handle("get_sandbox_if_ready", Call(c).thread,
                                              Call(c).sandbox, "cache", TRUE)
                 ELSE /\ Goes(c, "cache_build_claim_config", None, Call(c).sandbox, "cache")
                      /\ handed_out' = NoHandle
         ELSE /\ IF CanDelete(Call(c).thread)
                 THEN /\ ready_sandboxes' =
                             [ready_sandboxes EXCEPT ![Call(c).thread] = None]
                      /\ Goes(c, "get_id", None, None, "")
                 ELSE /\ EndCall(c)
                      /\ UNCHANGED ready_sandboxes
              /\ handed_out' = NoHandle
    /\ UNCHANGED <<pending_threads, created, task>>
    /\ UNCHANGED <<compactVars, toolVars, agentVars, utilityVars>>

\* claim_config = await self._build_claim_config(...), for the cached handle
\* (outside the try) and for the connected one (inside it: a failure
\* returns None).
ReadyBuildClaimConfig(c) ==
    /\ Call(c).op = "get_sandbox_if_ready"
    /\ \/ /\ Call(c).pc = "cache_build_claim_config"
          /\ Goes(c, "cache_claim", None, Call(c).sandbox, "cache")
       \/ /\ Call(c).pc = "build_claim_config"
          /\ \E built \in BOOLEAN :
               IF built
               THEN Goes(c, "claim", Call(c).sandbox_id, Call(c).sandbox, "connect")
               ELSE EndCall(c)
    /\ UNCHANGED <<pending_threads, ready_sandboxes, thread_sandbox_id,
                   claimed, created, task, overlapped>>
    /\ handed_out' = NoHandle
    /\ UNCHANGED <<compactVars, toolVars, agentVars, utilityVars>>

\* await sandbox.claim(claim_config) inside try/except Exception: the
\* handle is returned whether the claim succeeded or raised, the connected
\* one after it was put in the ready cache.
ReadyClaim(c) ==
    /\ Call(c).op = "get_sandbox_if_ready"
    /\ Call(c).pc \in {"cache_claim", "claim"}
    /\ \E accepted \in BOOLEAN :
         claimed' = IF accepted THEN claimed \cup {Call(c).sandbox} ELSE claimed
    /\ UNCHANGED <<thread_sandbox_id, overlapped>>
    /\ IF Call(c).pc = "claim"
       THEN CacheAndReturn(c, "connect")
       ELSE /\ EndCall(c)
            /\ UNCHANGED ready_sandboxes
            /\ handed_out' = Handle("get_sandbox_if_ready", Call(c).thread,
                                    Call(c).sandbox, "cache", TRUE)
    /\ UNCHANGED <<pending_threads, created, task>>
    /\ UNCHANGED <<compactVars, toolVars, agentVars, utilityVars>>

\* sandbox_id = await self._db.get_thread_sandbox_id(thread_id): None
\* returns None, an id is connected to and its health status awaited.
ReadyGetId(c) ==
    /\ Call(c).op = "get_sandbox_if_ready" /\ Call(c).pc = "get_id"
    /\ LET sandbox_id == thread_sandbox_id[Call(c).thread]
       IN  IF sandbox_id = None
           THEN EndCall(c)
           ELSE Goes(c, "health_status", sandbox_id, connect(sandbox_id), "connect")
    /\ UNCHANGED <<pending_threads, ready_sandboxes, thread_sandbox_id,
                   claimed, created, task, overlapped>>
    /\ handed_out' = NoHandle
    /\ UNCHANGED <<compactVars, toolVars, agentVars, utilityVars>>

\* health_status = await sandbox.get_health_status() on the connected
\* handle: healthy and claimed caches and returns it, healthy and not
\* claimed goes on to claim it, anything else returns None.
ReadyHealthStatus(c) ==
    /\ Call(c).op = "get_sandbox_if_ready" /\ Call(c).pc = "health_status"
    /\ UNCHANGED <<thread_sandbox_id, claimed, overlapped>>
    /\ \E healthy \in BOOLEAN :
         IF healthy
         THEN IF Call(c).sandbox \in claimed
              THEN CacheAndReturn(c, "connect")
              ELSE /\ Goes(c, "build_claim_config", Call(c).sandbox_id,
                           Call(c).sandbox, "connect")
                   /\ UNCHANGED <<ready_sandboxes>>
                   /\ handed_out' = NoHandle
         ELSE /\ EndCall(c)
              /\ UNCHANGED <<ready_sandboxes>>
              /\ handed_out' = NoHandle
    /\ UNCHANGED <<pending_threads, created, task>>
    /\ UNCHANGED <<compactVars, toolVars, agentVars, utilityVars>>

ReadyStep(c) ==
    \/ ReadyCacheHealthStatus(c) \/ ReadyBuildClaimConfig(c) \/ ReadyClaim(c)
    \/ ReadyGetId(c) \/ ReadyHealthStatus(c)

NextManager ==
    \/ \E t \in Threads : EnsureSandboxBackground(t) \/ TaskStep(t)
    \/ \E c \in Callers, t \in Threads :
          EnsureSandbox(c, t) \/ GetOrCreateSandboxRef(c, t) \/ GetSandboxIfReady(c, t)
    \/ \E c \in Callers :
          EnsureSandboxStep(c) \/ RefStep(c) \/ ReadyStep(c) \/ CallRaises(c)

SpecManager == InitManager /\ [][NextManager]_vars

\* The event loop runs every task it has created: a task that can take a
\* step takes it, and every await of the task ends, with a result or with
\* an exception (the health wait and the claim by their timeouts).
SpecManagerLive ==
    InitManager /\ [][NextManager]_vars /\ \A t \in Threads : WF_vars(TaskStep(t))


(***************************************************************************)
(* Properties of the sandbox manager.                                      *)
(***************************************************************************)

\* The callers that are provisioning a sandbox for thread t: inside
\* ensure_sandbox past the store read (creating or connected, waiting for
\* health, restarting, claiming) or inside the create path of
\* get_or_create_sandbox_ref.
ProvisioningCalls(t) ==
    {c \in Callers :
        /\ Call(c).thread = t
        /\ \/ /\ Call(c).op = "ensure_sandbox"
              /\ Call(c).pc \in {"check_health", "short_wait", "restart", "create",
                                 "update", "wait_until_live", "build_claim_config",
                                 "claim"}
           \/ /\ Call(c).op = "get_or_create_sandbox_ref"
              /\ Call(c).pc \in {"create", "update"}}

\* The background task of t is provisioning: past its store read.
TaskProvisioning(t) ==
    task[t].pc \in {"create", "update", "wait_until_live", "build_claim_config", "claim"}

InFlight(t) ==
    Cardinality(ProvisioningCalls(t)) + (IF TaskProvisioning(t) THEN 1 ELSE 0)

\* C12: for each thread id at most one sandbox provisioning (create or
\* connect, health wait, claim) is in flight in the manager at any time,
\* whatever the interleaving of ensure_sandbox_background, ensure_sandbox and
\* get_or_create_sandbox_ref calls for the thread.
C12_AtMostOneProvisioningInFlight == \A t \in Threads : InFlight(t) <= 1

\* The awaited steps of a task that went all the way.
TaskStepsAllSucceeded(t) ==
    /\ {"get_id", "wait_until_live", "build_claim_config", "claim"} \subseteq task[t].steps
    /\ "create" \in task[t].steps <=> "update" \in task[t].steps
    /\ "create" \in task[t].steps \/ thread_sandbox_id[t] # None

\* C13: every background task started by ensure_sandbox_background(t)
\* eventually removes t from the pending set, whichever of its awaits
\* succeed or raise; and the task puts t in the ready cache only when all of
\* its steps succeeded.
C13_TaskReleasesPending ==
    /\ \A t \in Threads : (t \in pending_threads) ~> (t \notin pending_threads)
    /\ [](\A t \in Threads :
             /\ task[t].inserted => TaskStepsAllSucceeded(t)
             /\ handed_out.op = "_ensure_sandbox_task" /\ handed_out.thread = t
                    => task[t].inserted)

\* A task that created the sandbox has put it in the ready cache and has
\* released the pending set.
C13_Witness ==
    \E t \in Threads :
        /\ task[t].inserted /\ "create" \in task[t].steps
        /\ task[t].pc = "none" /\ t \notin pending_threads

\* C14: every handle the manager hands out for tool use (returned by
\* get_sandbox_if_ready or ensure_sandbox, or put in the ready cache) is
\* claimed at that moment.
C14_HandedOutHandleClaimed == handed_out.op # "none" => handed_out.claimed

C36_CachedHandleIsBound ==
    \A t \in Threads :
        ready_sandboxes[t] # None => ready_sandboxes[t] = thread_sandbox_id[t]

\* C37: claim() is never invoked on a sandbox that was claimed before, by
\* the background task or by get_sandbox_if_ready.
C37_ClaimedOnce ==
    [][/\ \A t \in Threads :
            TaskClaim(t) /\ "create" \in task[t].steps => task[t].sandbox \notin claimed
       /\ \A c \in Callers : ReadyClaim(c) => Call(c).sandbox \notin claimed]_vars

(***************************************************************************)
(* Part 5: the message sanitizer, sanitize_messages_for_openai             *)
(* (src/src/kafka/utils.py), called by run_with_thread on the thread's     *)
(* history followed by the new messages.                                   *)
(***************************************************************************)

\* Longest message list passed to the sanitizer.
MaxMessages == 3

\* The messages of the lists explored: a user message, an assistant message
\* without tool calls, assistant messages with one call, two calls and a
\* call without an id, and tool messages with the ids c1, c2 and none.
SanitizerMessages ==
    {Msg("user", "u", <<>>, ""),
     Msg("assistant", "a", <<>>, ""),
     Msg("assistant", "", <<ToolCall("c1", "t", "")>>, ""),
     Msg("assistant", "", <<ToolCall("c1", "t", ""), ToolCall("c2", "t", "")>>, ""),
     Msg("assistant", "", <<ToolCall("", "t", "")>>, ""),
     Msg("tool", "r", <<>>, "c1"),
     Msg("tool", "r", <<>>, "c2"),
     Msg("tool", "r", <<>>, "")}

SanitizerInputs == UNION {[1..n -> SanitizerMessages] : n \in 0..MaxMessages}

InitSanitize ==
    /\ CompactIdle
    /\ ToolIdle
    /\ AgentIdle
    /\ ManagerIdle
    /\ ExtraIdle
    /\ RegistryIdle
    /\ PruneIdle
    /\ DbIdle
    /\ WarmIdle
    /\ StreamIdle
    /\ s_pc = "called"
    /\ s_messages \in SanitizerInputs
    /\ s_sanitized = <<>>
    /\ s_again = <<>>

\* The call returns the sanitized list.
Sanitize ==
    /\ s_pc = "called"
    /\ s_sanitized' = sanitize_messages_for_openai(s_messages)
    /\ s_pc' = "returned"
    /\ UNCHANGED <<s_messages, s_again>>
    /\ UNCHANGED exceptSanitizeVars

\* The function is called on the list it returned.
SanitizeAgain ==
    /\ s_pc = "returned"
    /\ s_again' = sanitize_messages_for_openai(s_sanitized)
    /\ s_pc' = "returned_again"
    /\ UNCHANGED <<s_messages, s_sanitized>>
    /\ UNCHANGED exceptSanitizeVars

NextSanitize == Sanitize \/ SanitizeAgain

SpecSanitize == InitSanitize /\ [][NextSanitize]_vars

-----------------------------------------------------------------------------
(* Properties of the sanitizer.                                            *)

\* The messages at the indexes keep, in their order.
RECURSIVE KeptFrom(_, _, _)
KeptFrom(messages, keep, i) ==
    IF i > Len(messages) THEN <<>>
    ELSE (IF i \in keep THEN <<messages[i]>> ELSE <<>>) \o KeptFrom(messages, keep, i + 1)

\* The index of the last message before i that is not a tool message, 0 if
\* there is none.
LastNonTool(messages, i) ==
    LET before == {j \in 1..(i - 1) : messages[j].role # "tool"}
    IN IF before = {} THEN 0 ELSE CHOOSE j \in before : \A k \in before : k <= j

\* valid_ids at message i, as the set of the tool-call ids of the most
\* recent assistant message that carried tool calls, empty once another
\* non-tool message came after it.
ValidIdsOfLastAssistant(messages, i) ==
    LET j == LastNonTool(messages, i)
    IN IF j > 0 /\ IsAssistantWithToolCalls(messages[j]) THEN ToolCallIds(messages[j])
       ELSE {}

\* The tool messages between the last non-tool message and i carrying the id
\* of message i.
AnsweredSince(messages, i) ==
    {k \in (LastNonTool(messages, i) + 1)..(i - 1) :
        messages[k].tool_call_id = messages[i].tool_call_id}

\* C20, as stated: the sanitizer keeps every non-tool message, in order, and
\* keeps a tool message if and only if its tool_call_id is among the
\* tool-call ids of the most recent assistant message that carried tool
\* calls, no other non-tool message standing between the two.
C20_KeepsByValidIds ==
    s_pc = "returned" =>
        s_sanitized =
            KeptFrom(s_messages,
                     {i \in 1..Len(s_messages) :
                         \/ s_messages[i].role # "tool"
                         \/ s_messages[i].tool_call_id
                                \in ValidIdsOfLastAssistant(s_messages, i)},
                     1)

\* C20, amended: the sanitizer keeps every non-tool message, in order, and
\* keeps a tool message if and only if its tool_call_id is not empty, is
\* among the tool-call ids of the most recent assistant message that carried
\* tool calls, no other non-tool message standing between the two, and no
\* tool message between the two carries the same id.
C20_KeepsByUnusedValidIds ==
    s_pc = "returned" =>
        s_sanitized =
            KeptFrom(s_messages,
                     {i \in 1..Len(s_messages) :
                         \/ s_messages[i].role # "tool"
                         \/ /\ s_messages[i].tool_call_id # ""
                            /\ s_messages[i].tool_call_id
                                   \in ValidIdsOfLastAssistant(s_messages, i)
                            /\ AnsweredSince(s_messages, i) = {}},
                     1)

\* The sanitizer has returned a list in which it kept the first of two tool
\* messages answering the same call and dropped the second.
C20_Witness ==
    /\ s_pc = "returned"
    /\ Len(s_messages) = 3
    /\ IsAssistantWithToolCalls(s_messages[1])
    /\ s_messages[2].role = "tool" /\ s_messages[3] = s_messages[2]
    /\ s_messages[2].tool_call_id \in ToolCallIds(s_messages[1]) \ {""}
    /\ s_sanitized = <<s_messages[1], s_messages[2]>>

\* C21: sanitizing is idempotent: the sanitizer called on a list it
\* returned returns that list.
C21_SanitizeIdempotent == s_pc = "returned_again" => s_again = s_sanitized

\* The sanitizer was called again on a result from which it had dropped a
\* tool message and in which it had kept one.
C21_Witness ==
    /\ s_pc = "returned_again"
    /\ Len(s_sanitized) < Len(s_messages)
    /\ \E i \in 1..Len(s_sanitized) : s_sanitized[i].role = "tool"

(***************************************************************************)
(* Part 6: the tool registry of AgentToolProvider (src/src/tools/agent.py, *)
(* src/src/tools/base.py): the three dicts that hold the local tools, the  *)
(* sandbox tools and the connected MCP server's tools, and the source map  *)
(* that run_tool_stream routes by.  One MCP server, named "srv", is        *)
(* configured.                                                             *)
(***************************************************************************)

InitRegistry ==
    /\ CompactIdle
    /\ ToolIdle
    /\ AgentIdle
    /\ ManagerIdle
    /\ ExtraIdle
    /\ SanitizeIdle
    /\ PruneIdle
    /\ DbIdle
    /\ WarmIdle
    /\ StreamIdle
    /\ RegistryIdle

\* The first registration under a name is remembered.
NoteFirst(name, kind, definition) ==
    IF r_first[name] = NoFirst
    THEN [r_first EXCEPT ![name] = [kind |-> kind, definition |-> definition]]
    ELSE r_first

\* ToolProvider.add_tool: self._tools[tool.name] = tool.
add_tool(name, definition) ==
    /\ r_tools' = [r_tools EXCEPT ![name] = definition]
    /\ r_first' = NoteFirst(name, "local", definition)
    /\ UNCHANGED <<r_sandbox_tools, r_mcp_tools, r_tool_source_map>>
    /\ UNCHANGED exceptRegistryVars

\* register_handler: the name is routed to the local handler, whether or
\* not a local tool has the name.
register_handler(name) ==
    /\ r_tool_source_map' = [r_tool_source_map EXCEPT ![name] = "local"]
    /\ UNCHANGED <<r_tools, r_sandbox_tools, r_mcp_tools, r_first>>
    /\ UNCHANGED exceptRegistryVars

\* add_sandbox_tool: both dicts are assigned.
add_sandbox_tool(name, definition) ==
    /\ r_sandbox_tools' = [r_sandbox_tools EXCEPT ![name] = definition]
    /\ r_tool_source_map' = [r_tool_source_map EXCEPT ![name] = "sandbox"]
    /\ r_first' = NoteFirst(name, "sandbox", definition)
    /\ UNCHANGED <<r_tools, r_mcp_tools>>
    /\ UNCHANGED exceptRegistryVars

\* connect: the server's tools are discovered and mapped to the server,
\* then the local tools that have no source yet are marked local, then
\* every sandbox tool is marked sandbox.
connect_registry(discovered) ==
    /\ r_mcp_tools' = discovered
    /\ r_tool_source_map' =
           [name \in RegisteredNames |->
               IF r_sandbox_tools[name] # "" THEN "sandbox"
               ELSE IF discovered[name] # "" THEN "srv"
               ELSE IF r_tools[name] # "" /\ r_tool_source_map[name] = "" THEN "local"
               ELSE r_tool_source_map[name]]
    /\ r_first' =
           [name \in RegisteredNames |->
               IF r_first[name] = NoFirst /\ discovered[name] # ""
               THEN [kind |-> "srv", definition |-> discovered[name]]
               ELSE r_first[name]]
    /\ UNCHANGED <<r_tools, r_sandbox_tools>>
    /\ UNCHANGED exceptRegistryVars

\* get_tools, the definitions listed under one name: the regular tools,
\* then the server's tools, then the sandbox tools.
get_tools(name) ==
    (IF r_tools[name] # "" THEN <<r_tools[name]>> ELSE <<>>)
      \o (IF r_mcp_tools[name] # "" THEN <<r_mcp_tools[name]>> ELSE <<>>)
      \o (IF r_sandbox_tools[name] # "" THEN <<r_sandbox_tools[name]>> ELSE <<>>)

\* disconnect: the connections and the whole source map are cleared; the
\* local and the sandbox tools stay in their dicts.
disconnect_registry ==
    /\ r_mcp_tools' = [name \in RegisteredNames |-> ""]
    /\ r_tool_source_map' = [name \in RegisteredNames |-> ""]
    /\ UNCHANGED <<r_tools, r_sandbox_tools, r_first>>
    /\ UNCHANGED exceptRegistryVars

\* run_tool_stream answers "Tool not found" for a name without a source.
ToolNotFound(name) == r_tool_source_map[name] = ""

NextRegistry ==
    \/ disconnect_registry
    \/ \E name \in RegisteredNames, definition \in ToolDefinitions :
          add_tool(name, definition)
    \/ \E name \in RegisteredNames : register_handler(name)
    \/ \E name \in RegisteredNames, definition \in ToolDefinitions :
          add_sandbox_tool(name, definition)
    \/ \E discovered \in [RegisteredNames -> ToolDefinitions \cup {""}] :
          connect_registry(discovered)

SpecRegistry == InitRegistry /\ [][NextRegistry]_vars

-----------------------------------------------------------------------------
(* Properties of the tool registry.                                        *)

\* C23: local, sandbox and MCP tools share one namespace keyed by name:
\* once a name is registered, its first registration keeps its definition
\* (the only one get_tools lists under the name) and its routing, whatever
\* is registered under the name later.
C23_FirstRegistrationWins ==
    \A name \in RegisteredNames :
        r_first[name] # NoFirst =>
            /\ get_tools(name) = <<r_first[name].definition>>
            /\ r_tool_source_map[name] \in {"", r_first[name].kind}

\* C38: every tool name get_tools lists is dispatchable: run_tool_stream
\* does not answer "Tool not found" for it, after any sequence of add_tool,
\* add_sandbox_tool, connect and disconnect.
C38_ListedToolsAreDispatchable ==
    \A name \in RegisteredNames : get_tools(name) # <<>> => ~ToolNotFound(name)

(***************************************************************************)
(* Part 7: prune_images_in_messages (src/src/llm/utils.py), which          *)
(* stream_completion applies to the message dicts before the request.      *)
(*                                                                         *)
(* A message's content is a string or a list of typed parts; here a        *)
(* message is its list of parts, with is_list telling the two apart.       *)
(***************************************************************************)

\* Model-scale value of max_images (19 at both call sites).
max_images == 2

\* Longest conversation passed to the function.
MaxPruneMessages == 3

TextPart == [type |-> "text", ref |-> "t"]
ImagePart(type, ref) == [type |-> type, ref |-> ref]

IsImage(item) == item.type \in {"image", "image_url"}

\* The contents explored: a string, an empty list, and lists with one or
\* two image parts, alone or next to a text part.
PruneContents ==
    {[is_list |-> FALSE, parts |-> <<>>],
     [is_list |-> TRUE, parts |-> <<>>],
     [is_list |-> TRUE, parts |-> <<ImagePart("image_url", "a")>>],
     [is_list |-> TRUE, parts |-> <<TextPart, ImagePart("image", "b")>>],
     [is_list |-> TRUE, parts |-> <<ImagePart("image_url", "a"), TextPart,
                                    ImagePart("image_url", "a")>>]}

PruneInputs == UNION {[1..n -> PruneContents] : n \in 0..MaxPruneMessages}

\* all_images: the (message index, part index) of every image part, the
\* part index standing for the item the code pairs with the message index.
AllImages(messages) ==
    {<<idx, k>> \in (1..Len(messages)) \X (1..3) :
        /\ messages[idx].is_list
        /\ k <= Len(messages[idx].parts)
        /\ IsImage(messages[idx].parts[k])}

\* The function's outcome.  With more than max_images images it builds
\* set(all_images[:-max_images]) from tuples (idx, item) whose item is a
\* dict, which raises TypeError (unhashable type) before anything is
\* removed; otherwise it returns its argument.
prune_images_in_messages(messages) ==
    IF Cardinality(AllImages(messages)) > max_images
    THEN [raised |-> "TypeError", messages |-> <<>>]
    ELSE [raised |-> "", messages |-> messages]

InitPrune ==
    /\ CompactIdle
    /\ ToolIdle
    /\ AgentIdle
    /\ ManagerIdle
    /\ ExtraIdle
    /\ SanitizeIdle
    /\ RegistryIdle
    /\ DbIdle
    /\ WarmIdle
    /\ StreamIdle
    /\ p_pc = "called"
    /\ p_messages \in PruneInputs
    /\ p_result = <<>>

PruneImages ==
    /\ p_pc = "called"
    /\ LET outcome == prune_images_in_messages(p_messages)
       IN /\ p_result' = outcome.messages
          /\ p_pc' = IF outcome.raised = "" THEN "returned" ELSE "raised"
    /\ UNCHANGED p_messages
    /\ UNCHANGED exceptPruneVars

NextPrune == PruneImages

SpecPrune == InitPrune /\ [][NextPrune]_vars

-----------------------------------------------------------------------------
(* Properties of prune_images_in_messages.                                 *)

\* Position a stands before position b in the conversation.
Before(a, b) == a[1] < b[1] \/ (a[1] = b[1] /\ a[2] < b[2])

\* The image positions that have fewer than max_images image positions
\* after them: the newest min(total, max_images).
NewestImages(messages) ==
    {a \in AllImages(messages) :
        Cardinality({b \in AllImages(messages) : Before(a, b)}) < max_images}

\* The parts of message idx from part k on, without the image parts that
\* are not among the newest.
RECURSIVE PartsKept(_, _, _)
PartsKept(messages, idx, k) ==
    IF k > Len(messages[idx].parts) THEN <<>>
    ELSE (IF IsImage(messages[idx].parts[k]) /\ <<idx, k>> \notin NewestImages(messages)
          THEN <<>> ELSE <<messages[idx].parts[k]>>)
            \o PartsKept(messages, idx, k + 1)

\* C25: prune_images_in_messages returns the conversation with the newest
\* min(total, max_images) image parts, by position, retained, every older
\* image part removed, and the other parts and the messages unchanged.
C25_KeepsNewestImages ==
    p_pc # "called" =>
        /\ p_pc = "returned"
        /\ p_result =
              [idx \in 1..Len(p_messages) |->
                  [is_list |-> p_messages[idx].is_list,
                   parts |-> PartsKept(p_messages, idx, 1)]]

(***************************************************************************)
(* Part 8: the messages table of LocalDBClient (src/src/db/local.py).      *)
(*                                                                         *)
(* created_at is TEXT DEFAULT CURRENT_TIMESTAMP, the time of the insertion *)
(* to the second; get_thread_messages orders by created_at only, and the   *)
(* order SQLite returns rows of equal created_at in is not specified: any  *)
(* of them is an outcome.  The rows of one thread are followed, each       *)
(* message identified by its place in the order of the add_message calls.  *)
(***************************************************************************)

\* The seconds the clock passes through, and the messages added.
MaxSeconds == 2
MaxRows == 3

InitDb ==
    /\ CompactIdle
    /\ ToolIdle
    /\ AgentIdle
    /\ ManagerIdle
    /\ ExtraIdle
    /\ SanitizeIdle
    /\ RegistryIdle
    /\ PruneIdle
    /\ DbIdle
    /\ WarmIdle
    /\ StreamIdle

\* A second passes.
Tick ==
    /\ d_now < MaxSeconds
    /\ d_now' = d_now + 1
    /\ UNCHANGED <<d_rows, d_messages>>
    /\ UNCHANGED exceptDbVars

\* add_message: one INSERT, created_at defaulting to the current second.
add_message ==
    /\ Len(d_rows) < MaxRows
    /\ d_rows' = Append(d_rows, [message |-> Len(d_rows) + 1, created_at |-> d_now])
    /\ UNCHANGED <<d_now, d_messages>>
    /\ UNCHANGED exceptDbVars

\* ORDER BY created_at ASC: the arrangements of the rows in which
\* created_at never decreases.
OrderedByCreatedAt(rows) ==
    {order \in [1..Len(rows) -> 1..Len(rows)] :
        /\ \A i, j \in 1..Len(rows) : i # j => order[i] # order[j]
        /\ \A i, j \in 1..Len(rows) :
              i < j => rows[order[i]].created_at <= rows[order[j]].created_at}

\* ORDER BY created_at ASC if rows of equal created_at came in insertion
\* order.
OrderedByCreatedAt_ThenInsertion(rows) == {[i \in 1..Len(rows) |-> i]}

\* get_thread_messages: the messages of the rows in the order of the query.
get_thread_messages ==
    /\ \E order \in OrderedByCreatedAt(d_rows) :
          d_messages' = [i \in 1..Len(d_rows) |-> d_rows[order[i]].message]
    /\ UNCHANGED <<d_now, d_rows>>
    /\ UNCHANGED exceptDbVars

NextDb == Tick \/ add_message \/ get_thread_messages

SpecDb == InitDb /\ [][NextDb]_vars

-----------------------------------------------------------------------------
(* Properties of the messages table.                                       *)

MaxWarm == 2

Warm(n) == [kind |-> "warm", n |-> n]
New(n) == [kind |-> "new", n |-> n]

InitWarm ==
    /\ CompactIdle
    /\ ToolIdle
    /\ AgentIdle
    /\ ManagerIdle
    /\ ExtraIdle
    /\ SanitizeIdle
    /\ RegistryIdle
    /\ PruneIdle
    /\ DbIdle
    /\ StreamIdle
    /\ w_warm_factory \in BOOLEAN
    /\ w_pool \in IF w_warm_factory THEN 0..MaxWarm ELSE {0}
    /\ w_created = 0
    /\ w_thread_sandbox_id = [t \in WarmThreads |-> NoSandbox]
    /\ w_call = [t \in WarmThreads |-> NoProvisioning]

\* The factory has a warm sandbox to hand out.
WarmAvailable == w_warm_factory /\ w_pool > 0

\* ensure_sandbox(thread_id) is called, or the task of
\* ensure_sandbox_background(thread_id) starts: the thread is not in the ready
\* cache and the store is asked for its sandbox id.
Provision(t, op) ==
    /\ w_call[t].op = "none"
    /\ w_call' = [w_call EXCEPT ![t] = [NoProvisioning EXCEPT !.op = op, !.pc = "get_id"]]
    /\ UNCHANGED <<w_warm_factory, w_pool, w_thread_sandbox_id, w_created>>
    /\ UNCHANGED exceptWarmVars

\* sandbox_id = await self._db.get_thread_sandbox_id(thread_id): a thread
\* without one goes to _create_and_claim in ensure_sandbox and to
\* DaytonaSandbox.create in the task; a bound thread is connected to.
ProvisionGetId(t) ==
    /\ w_call[t].pc = "get_id"
    /\ w_call' = [w_call EXCEPT ![t] =
          IF w_thread_sandbox_id[t] # NoSandbox
          THEN [@ EXCEPT !.pc = "connected", !.sandbox = w_thread_sandbox_id[t]]
          ELSE [@ EXCEPT !.pc = IF w_call[t].op = "ensure_sandbox"
                                THEN "_create_and_claim" ELSE "create"]]
    /\ UNCHANGED <<w_warm_factory, w_pool, w_thread_sandbox_id, w_created>>
    /\ UNCHANGED exceptWarmVars

\* _create_and_claim up to the update of the store: the warm pool first if
\* there is a factory, DaytonaSandbox.create if there is none or it has
\* nothing.
create_and_claim(t) ==
    /\ w_call[t].pc = "_create_and_claim"
    /\ IF w_warm_factory /\ w_pool > 0
       THEN /\ w_pool' = w_pool - 1
            /\ w_created' = w_created
            /\ w_call' = [w_call EXCEPT ![t] =
                  [@ EXCEPT !.pc = "update", !.sandbox = Warm(w_pool),
                            !.warm_available = WarmAvailable]]
       ELSE /\ w_pool' = w_pool
            /\ w_created' = w_created + 1
            /\ w_call' = [w_call EXCEPT ![t] =
                  [@ EXCEPT !.pc = "update", !.sandbox = New(w_created + 1),
                            !.warm_available = WarmAvailable, !.created = TRUE]]
    /\ UNCHANGED <<w_warm_factory, w_thread_sandbox_id>>
    /\ UNCHANGED exceptWarmVars

\* _ensure_sandbox_task with no sandbox id:
\* sandbox = await DaytonaSandbox.create(self._env_id).
task_create(t) ==
    /\ w_call[t].pc = "create"
    /\ w_created' = w_created + 1
    /\ w_call' = [w_call EXCEPT ![t] =
          [@ EXCEPT !.pc = "update", !.sandbox = New(w_created + 1),
                    !.warm_available = WarmAvailable, !.created = TRUE]]
    /\ UNCHANGED <<w_warm_factory, w_pool, w_thread_sandbox_id>>
    /\ UNCHANGED exceptWarmVars

\* await self._db.update_thread_sandbox_id(thread_id, sandbox.id)
ProvisionUpdate(t) ==
    /\ w_call[t].pc = "update"
    /\ w_thread_sandbox_id' = [w_thread_sandbox_id EXCEPT ![t] = w_call[t].sandbox]
    /\ w_call' = [w_call EXCEPT ![t] = [@ EXCEPT !.pc = "bound"]]
    /\ UNCHANGED <<w_warm_factory, w_pool, w_created>>
    /\ UNCHANGED exceptWarmVars

\* The sandbox is waited for, claimed and cached, and the call ends.
ProvisionReturn(t) ==
    /\ w_call[t].pc \in {"bound", "connected"}
    /\ w_call' = [w_call EXCEPT ![t] = NoProvisioning]
    /\ UNCHANGED <<w_warm_factory, w_pool, w_thread_sandbox_id, w_created>>
    /\ UNCHANGED exceptWarmVars

NextWarm ==
    \E t \in WarmThreads :
        \/ \E op \in {"ensure_sandbox", "_ensure_sandbox_task"} : Provision(t, op)
        \/ ProvisionGetId(t)
        \/ create_and_claim(t)
        \/ task_create(t)
        \/ ProvisionUpdate(t)
        \/ ProvisionReturn(t)

SpecWarm == InitWarm /\ [][NextWarm]_vars

-----------------------------------------------------------------------------
(* Properties of provisioning.                                             *)

\* C28: a thread without a sandbox id that is provisioned, by
\* ensure_sandbox or by the task of ensure_sandbox_background, while the
\* warm factory has a warm sandbox to give is bound to a warm sandbox, and
\* nothing is created for it.
C28_WarmPoolFirst ==
    \A t \in WarmThreads :
        (w_call[t].pc = "bound" /\ w_call[t].warm_available) =>
            /\ w_thread_sandbox_id[t].kind = "warm"
            /\ ~w_call[t].created

(***************************************************************************)
(* Part 10: the SSE stream generators of the server (src/server.py):       *)
(* generate_agent_stream, generate_agent_stream_with_thread and            *)
(* generate_completion_stream.  A generator is followed from its call to   *)
(* its return; g_lines holds the payloads of the "data: ..." lines it      *)
(* yielded, the generator's own error event being the payload "error".     *)
(***************************************************************************)

\* The events one agent run yields.
MaxEvents == 3
chunk_size == 20

Generators ==
    {"generate_agent_stream", "generate_agent_stream_with_thread",
     "generate_completion_stream"}

RunEvent(type, final_content) == [type |-> type, final_content |-> final_content]

\* The events of a run the generators tell apart; agent_done carries
\* final_content, here its length.
RunEvents ==
    {RunEvent("tool_result", 0), RunEvent("assistant_message", 0),
     RunEvent("tool_message", 0), RunEvent("agent_done", 0),
     RunEvent("agent_done", chunk_size + 1)}

DONE == "[DONE]"

\* n times the line.
RECURSIVE Repeat(_, _)
Repeat(line, n) == IF n = 0 THEN <<>> ELSE <<line>> \o Repeat(line, n - 1)

\* for i in range(0, len(final_content), chunk_size): one content chunk each.
ContentChunks(final_content) ==
    Repeat("chunk:content", (final_content + chunk_size - 1) \div chunk_size)

InitStream ==
    /\ CompactIdle
    /\ ToolIdle
    /\ AgentIdle
    /\ ManagerIdle
    /\ ExtraIdle
    /\ SanitizeIdle
    /\ RegistryIdle
    /\ PruneIdle
    /\ DbIdle
    /\ WarmIdle
    /\ g_pc = "called"
    /\ g_generator \in Generators
    /\ g_initialized \in BOOLEAN
    /\ g_run = <<>>
    /\ g_final_content = 0
    /\ g_messages_to_save = 0
    /\ g_lines = <<>>

\* if not kafka or ...: yield the error payload and return.
StreamGuard ==
    /\ g_pc = "called"
    /\ IF g_initialized
       THEN g_pc' = "running" /\ g_lines' = g_lines
       ELSE g_pc' = "returned" /\ g_lines' = Append(g_lines, "error")
    /\ UNCHANGED <<g_generator, g_initialized, g_run, g_final_content, g_messages_to_save>>
    /\ UNCHANGED exceptStreamVars

\* One turn of "async for event in ...run(...)".  The agent generators
\* yield every event; generate_completion_stream yields tool results, counts
\* the messages to save and keeps the final content.
StreamEvent(event) ==
    /\ g_pc = "running"
    /\ Len(g_run) < MaxEvents
    /\ g_run' = Append(g_run, event)
    /\ IF g_generator # "generate_completion_stream"
       THEN /\ g_lines' = Append(g_lines, event.type)
            /\ UNCHANGED <<g_final_content, g_messages_to_save>>
       ELSE /\ g_lines' = IF event.type = "tool_result"
                          THEN Append(g_lines, event.type) ELSE g_lines
            /\ g_messages_to_save' =
                  IF event.type \in {"assistant_message", "tool_message"}
                  THEN g_messages_to_save + 1 ELSE g_messages_to_save
            /\ g_final_content' =
                  IF event.type = "agent_done"
                  THEN event.final_content ELSE g_final_content
    /\ UNCHANGED <<g_pc, g_generator, g_initialized>>
    /\ UNCHANGED exceptStreamVars

\* Something in the try block raises (the run, the set-up of the thread's
\* agent, the saving of the messages): except Exception yields the error
\* payload and [DONE].
StreamRaises ==
    /\ g_pc \in {"running", "saving"}
    /\ g_lines' = g_lines \o <<"error", DONE>>
    /\ g_pc' = "returned"
    /\ UNCHANGED <<g_generator, g_initialized, g_run, g_final_content, g_messages_to_save>>
    /\ UNCHANGED exceptStreamVars

\* The run is over.  The agent generators yield [DONE];
\* generate_completion_stream yields the messages for the frontend, the
\* role chunk and the content chunks, and goes on to save.
StreamRunEnds ==
    /\ g_pc = "running"
    /\ IF g_generator # "generate_completion_stream"
       THEN g_lines' = Append(g_lines, DONE) /\ g_pc' = "returned"
       ELSE /\ g_lines' = g_lines
                  \o (IF g_messages_to_save > 0 THEN <<"tool_messages">> ELSE <<>>)
                  \o <<"chunk:role">> \o ContentChunks(g_final_content)
            /\ g_pc' = "saving"
    /\ UNCHANGED <<g_generator, g_initialized, g_run, g_final_content, g_messages_to_save>>
    /\ UNCHANGED exceptStreamVars

\* generate_completion_stream after the saving: the final chunk and [DONE].
StreamFinalChunk ==
    /\ g_pc = "saving"
    /\ g_lines' = g_lines \o <<"chunk:stop", DONE>>
    /\ g_pc' = "returned"
    /\ UNCHANGED <<g_generator, g_initialized, g_run, g_final_content, g_messages_to_save>>
    /\ UNCHANGED exceptStreamVars

NextStream ==
    \/ StreamGuard
    \/ \E event \in RunEvents : StreamEvent(event)
    \/ StreamRaises
    \/ StreamRunEnds
    \/ StreamFinalChunk

SpecStream == InitStream /\ [][NextStream]_vars

-----------------------------------------------------------------------------
(* Properties of the stream generators.                                    *)

\* C29: the stream a generator has returned from ends with [DONE], and
\* every error payload in it has [DONE] after it.
C29_StreamEndsWithDone ==
    g_pc = "returned" =>
        /\ g_lines # <<>>
        /\ g_lines[Len(g_lines)] = DONE
        /\ \A i \in 1..Len(g_lines) :
              g_lines[i] = "error" => \E j \in (i + 1)..Len(g_lines) : g_lines[j] = DONE

(***************************************************************************)
(* Part 11: find_safe_split_point on its own                               *)
(* (src/src/llm/context_compaction/base.py), applied to every bounded      *)
(* message list and every target.                                          *)
(***************************************************************************)

MaxSplitLen == 5

\* The messages the walk tells apart.
SplitMsgs ==
    {Msg("user", "u", <<>>, ""), Msg("assistant", "x", <<>>, ""),
     Msg("assistant", "", <<ToolCall("a", "t", "")>>, ""), Msg("tool", "r", <<>>, "a")}

InitSplit ==
    /\ ExceptSplitIdle
    /\ f_pc = "called"
    /\ f_messages \in SeqsUpTo(SplitMsgs, MaxSplitLen)
    /\ f_target_split \in -1..(MaxSplitLen + 1)
    /\ f_safe_split = 0

FindSafeSplitPoint ==
    /\ f_pc = "called"
    /\ f_safe_split' = find_safe_split_point(f_messages, f_target_split)
    /\ f_pc' = "returned"
    /\ UNCHANGED <<f_messages, f_target_split>>
    /\ UNCHANGED exceptSplitVars

NextSplit == FindSafeSplitPoint

SpecSplit == InitSplit /\ [][NextSplit]_vars

-----------------------------------------------------------------------------
(* Properties of find_safe_split_point.                                    *)

\* Splitting messages before the message of 0-based index k cuts no tool
\* sequence: k is 0, or the message at k-1 is not an assistant with tool
\* calls and the message at k is not a tool message.
SafeAt(messages, k) ==
    \/ k = 0
    \/ /\ ~IsAssistantWithToolCalls(messages[k])
       /\ ~(k < Len(messages) /\ messages[k + 1].role = "tool")

\* The split at k has an assistant with tool calls before it and, after
\* it, the run of tool messages that follows that assistant.
SeparatesToolSequence(messages, k) ==
    \E i \in 1..k :
        /\ IsAssistantWithToolCalls(messages[i])
        /\ k < Len(messages)
        /\ \A j \in (i + 1)..(k + 1) : messages[j].role = "tool"

\* C31: for 0 < target_split < len(messages), find_safe_split_point returns
\* the largest k <= target_split at which the split is safe, and that split
\* separates no assistant with tool calls from the tool messages that
\* follow it.
C31_LargestSafeSplit ==
    f_pc = "returned" /\ 0 < f_target_split /\ f_target_split < Len(f_messages) =>
        /\ f_safe_split \in 0..f_target_split
        /\ SafeAt(f_messages, f_safe_split)
        /\ \A k \in (f_safe_split + 1)..f_target_split : ~SafeAt(f_messages, k)
        /\ ~SeparatesToolSequence(f_messages, f_safe_split)

\* The target fell inside a tool sequence and the split moved back to a
\* point that is not the start of the list.
C31_Witness ==
    /\ f_pc = "returned"
    /\ 0 < f_target_split /\ f_target_split < Len(f_messages)
    /\ 0 < f_safe_split /\ f_safe_split < f_target_split

(***************************************************************************)
(* Part 12: a sandbox tool's run and run_stream (src/src/tools/types.py)   *)
(* on the handles it can be bound to: DaytonaSandbox.connect(sandbox_id),  *)
(* LocalSandbox.connect(url), LazySandbox.  h_handle.state is the _state   *)
(* of the real handle, h_handle.resolved says there is one (always, but    *)
(* for a lazy handle before its resolution).                               *)
(***************************************************************************)

\* The calls of the tool that are followed.
MaxRuns == 3

SandboxHandle(variant, resolved, state) ==
    [variant |-> variant, resolved |-> resolved, state |-> state]

\* connect() of both classes sets _state = RUNNING; a lazy handle has no
\* real handle yet.
Handles ==
    {SandboxHandle("connect_by_id", TRUE, "running"), SandboxHandle("direct_url", TRUE, "running"),
     SandboxHandle("lazy", FALSE, "creating")}

\* Sandbox.is_running, LazySandbox.is_running
is_running(handle) == handle.resolved /\ handle.state = "running"

InitHealth ==
    /\ ExceptHealthIdle
    /\ h_pc = "idle"
    /\ h_method = ""
    /\ h_handle \in Handles
    /\ h_steps = <<>>
    /\ h_runs = 0

\* run(arguments) or run_stream(arguments) is called.
SandboxToolRun(method) ==
    /\ h_pc = "idle"
    /\ h_runs < MaxRuns
    /\ h_method' = method
    /\ h_steps' = <<>>
    /\ h_pc' = "_ensure_healthy"
    /\ UNCHANGED <<h_handle, h_runs>>
    /\ UNCHANGED exceptHealthVars

\* if not self._sandbox.is_running: await self._sandbox.wait_until_live(...)
ensure_healthy ==
    /\ h_pc = "_ensure_healthy"
    /\ h_pc' = IF is_running(h_handle) THEN "run_tool" ELSE "wait_until_live"
    /\ UNCHANGED <<h_method, h_handle, h_steps, h_runs>>
    /\ UNCHANGED exceptHealthVars

\* LazySandbox.wait_until_live: _ensure_resolved gets the manager's handle,
\* or raises when none appeared in time.
LazyResolve ==
    /\ h_pc = "wait_until_live"
    /\ ~h_handle.resolved
    /\ \/ /\ h_handle' = SandboxHandle(h_handle.variant, TRUE, "running")
          /\ UNCHANGED <<h_pc, h_steps>>
       \/ /\ h_pc' = "raised"
          /\ h_steps' = Append(h_steps, "resolve timeout")
          /\ UNCHANGED h_handle
    /\ UNCHANGED <<h_method, h_runs>>
    /\ UNCHANGED exceptHealthVars

\* wait_until_live(timeout) of the real handle: the health endpoint answers
\* 200 in time and the state is RUNNING, or the time is up, the state is
\* ERROR and TimeoutError is raised.
WaitUntilLive ==
    /\ h_pc = "wait_until_live"
    /\ h_handle.resolved
    /\ \/ /\ h_handle' = [h_handle EXCEPT !.state = "running"]
          /\ h_steps' = Append(h_steps, "health wait")
          /\ h_pc' = "run_tool"
       \/ /\ h_handle' = [h_handle EXCEPT !.state = "error"]
          /\ h_steps' = Append(h_steps, "health timeout")
          /\ h_pc' = "raised"
    /\ UNCHANGED <<h_method, h_runs>>
    /\ UNCHANGED exceptHealthVars

\* self._sandbox.run_tool(name, arguments): SandboxError unless the state is
\* RUNNING, else the POST to /run.
RunTool ==
    /\ h_pc = "run_tool"
    /\ IF h_handle.state = "running"
       THEN h_steps' = Append(h_steps, "POST /run") /\ h_pc' = "returned"
       ELSE h_steps' = h_steps /\ h_pc' = "raised"
    /\ UNCHANGED <<h_method, h_handle, h_runs>>
    /\ UNCHANGED exceptHealthVars

\* The call is over.
SandboxToolEnds ==
    /\ h_pc \in {"returned", "raised"}
    /\ h_pc' = "idle"
    /\ h_runs' = h_runs + 1
    /\ UNCHANGED <<h_method, h_handle, h_steps>>
    /\ UNCHANGED exceptHealthVars

NextHealth ==
    \/ \E method \in {"run", "run_stream"} : SandboxToolRun(method)
    \/ ensure_healthy
    \/ LazyResolve
    \/ WaitUntilLive
    \/ RunTool
    \/ SandboxToolEnds

SpecHealth == InitHealth /\ [][NextHealth]_vars

-----------------------------------------------------------------------------
(* Properties of the sandbox tool.                                         *)

\* C32: a call of the tool that posted to /run waited for health first, in
\* the same call, and the wait succeeded.
C32_HealthWaitBeforeRun ==
    \A i \in 1..Len(h_steps) :
        h_steps[i] = "POST /run" => \E j \in 1..(i - 1) : h_steps[j] = "health wait"

(***************************************************************************)
(* Part 13: an MCP tool streamed through the broadcaster pipe              *)
(* (MCPConnection.call_tool_stream and the MCP branch of run_tool_stream,  *)
(* src/src/tools/agent.py).  Three coroutines share the event loop: the    *)
(* pipe reader, the call task and the consumer loop; each action is what   *)
(* one of them does between two awaits.  The tool's delta.content messages *)
(* are numbered 1, 2, ... in the order it writes them; None in the queue   *)
(* is QueueEnd.                                                            *)
(***************************************************************************)

\* The messages the tool writes to the pipe during one call.
MaxPipeMessages == 3

\* What goes through the queue and out: the content of the tool's n-th
\* message, None, the call's final result, the empty delta.
Content(kind, n) == [kind |-> kind, n |-> n]
PipeMessage(n) == Content("delta.content", n)
QueueEnd == Content("None", 0)
FinalResult == Content("final_result", 0)

\* ToolResultChunk(delta=..., is_complete=...)
PipeChunk(delta, is_complete) == [delta |-> delta, is_complete |-> is_complete]
CompleteChunk == PipeChunk(Content("", 0), TRUE)

InitPipe ==
    /\ ExceptPipeIdle
    /\ m_pipe = <<>>
    /\ m_written = 0
    /\ m_queue = <<>>
    /\ m_tool_done = FALSE
    /\ m_reader = "loop"
    /\ m_call = "running"
    /\ m_consumer = "waiting"
    /\ m_emitted = <<>>

\* The MCP server, while the call runs, writes one delta.content line.
ToolWrites ==
    /\ m_call = "running"
    /\ m_written < MaxPipeMessages
    /\ m_written' = m_written + 1
    /\ m_pipe' = Append(m_pipe, PipeMessage(m_written + 1))
    /\ UNCHANGED <<m_queue, m_tool_done, m_reader, m_call, m_consumer, m_emitted>>
    /\ UNCHANGED exceptPipeVars

\* call_tool_task: session.call_tool returns (or raises); finally
\* tool_done.set().
CallFinishes ==
    /\ m_call = "running"
    /\ m_call' = "finished"
    /\ m_tool_done' = TRUE
    /\ UNCHANGED <<m_pipe, m_written, m_queue, m_reader, m_consumer, m_emitted>>
    /\ UNCHANGED exceptPipeVars

\* read_pipe, one turn of "while not tool_done.is_set()": os.read takes what
\* is in the pipe and every message goes to the queue; with tool_done set
\* the loop is left and None is put.
ReadPipe ==
    /\ m_reader = "loop"
    /\ IF m_tool_done
       THEN /\ m_queue' = Append(m_queue, QueueEnd)
            /\ m_reader' = "done"
            /\ UNCHANGED m_pipe
       ELSE /\ m_pipe # <<>>
            /\ m_queue' = m_queue \o m_pipe
            /\ m_pipe' = <<>>
            /\ UNCHANGED m_reader
    /\ UNCHANGED <<m_written, m_tool_done, m_call, m_consumer, m_emitted>>
    /\ UNCHANGED exceptPipeVars

\* read_pipe cannot open the pipe, or os.read raises: the reader ends and
\* None is put.
ReadPipeFails ==
    /\ m_reader = "loop"
    /\ m_queue' = Append(m_queue, QueueEnd)
    /\ m_reader' = "done"
    /\ UNCHANGED <<m_pipe, m_written, m_tool_done, m_call, m_consumer, m_emitted>>
    /\ UNCHANGED exceptPipeVars

\* chunk = await asyncio.wait_for(chunk_queue.get(), timeout=0.1): a chunk
\* is yielded on, None breaks the loop.
ConsumerGets ==
    /\ m_consumer = "waiting"
    /\ m_queue # <<>>
    /\ m_queue' = Tail(m_queue)
    /\ IF Head(m_queue) = QueueEnd
       THEN m_consumer' = "finally" /\ UNCHANGED m_emitted
       ELSE /\ m_emitted' = Append(m_emitted, PipeChunk(Head(m_queue), FALSE))
            /\ UNCHANGED m_consumer
    /\ UNCHANGED <<m_pipe, m_written, m_tool_done, m_reader, m_call>>
    /\ UNCHANGED exceptPipeVars

\* asyncio.TimeoutError with tool_done set: the queue is drained and the
\* loop is left.  (Without tool_done the consumer waits again.)
ConsumerTimesOut ==
    /\ m_consumer = "waiting"
    /\ m_queue = <<>>
    /\ m_tool_done
    /\ m_emitted' = m_emitted \o
           [i \in 1..Len(SelectSeq(m_queue, LAMBDA chunk : chunk # QueueEnd)) |->
               PipeChunk(SelectSeq(m_queue, LAMBDA chunk : chunk # QueueEnd)[i], FALSE)]
    /\ m_queue' = <<>>
    /\ m_consumer' = "finally"
    /\ UNCHANGED <<m_pipe, m_written, m_tool_done, m_reader, m_call>>
    /\ UNCHANGED exceptPipeVars

\* finally: tool_done.set(); pipe_task.cancel(); await pipe_task: the reader,
\* if it still runs, is cancelled in its sleep and puts None.
ConsumerFinally ==
    /\ m_consumer = "finally"
    /\ m_tool_done' = TRUE
    /\ m_reader' = "done"
    /\ m_queue' = IF m_reader = "loop" THEN Append(m_queue, QueueEnd) ELSE m_queue
    /\ m_consumer' = "await tool_task"
    /\ UNCHANGED <<m_pipe, m_written, m_call, m_emitted>>
    /\ UNCHANGED exceptPipeVars

\* await tool_task; the final result is yielded if no chunk was; back in
\* run_tool_stream the final chunk follows.
ConsumerReturns ==
    /\ m_consumer = "await tool_task"
    /\ m_call = "finished"
    /\ m_emitted' = m_emitted
           \o (IF m_emitted = <<>> THEN <<PipeChunk(FinalResult, FALSE)>> ELSE <<>>)
           \o <<CompleteChunk>>
    /\ m_consumer' = "returned"
    /\ UNCHANGED <<m_pipe, m_written, m_queue, m_tool_done, m_reader, m_call>>
    /\ UNCHANGED exceptPipeVars

NextPipe ==
    \/ ToolWrites
    \/ CallFinishes
    \/ ReadPipe
    \/ ReadPipeFails
    \/ ConsumerGets
    \/ ConsumerTimesOut
    \/ ConsumerFinally
    \/ ConsumerReturns

SpecPipe == InitPipe /\ [][NextPipe]_vars

-----------------------------------------------------------------------------
(* Properties of MCP streaming.                                            *)

\* C33: once the final chunk is out, every message the tool wrote to the
\* pipe during the call was yielded as a chunk before it.
C33_PipeContentBeforeFinalChunk ==
    m_consumer = "returned" =>
        \A message \in 1..m_written :
            \E i \in 1..(Len(m_emitted) - 1) :
                m_emitted[i] = PipeChunk(PipeMessage(message), FALSE)

(***************************************************************************)
(* Part 14: LazySandbox (src/src/sandbox/lazy.py).  Two callers use one    *)
(* lazy handle; the manager's answer to get_sandbox_if_ready changes on    *)
(* its own.  Real handles are numbered from 1.                             *)
(***************************************************************************)

\* The handles the manager has for the thread, one after the other.
MaxHandles == 2
\* The timeout of the lazy handle, in polls.
MaxPolls == 2
\* The operations forwarded in one run.
MaxForwarded == 3

\* LazySandbox.id and LazySandbox.state
lazy_id(real) == IF real # None THEN <<"sandbox", real>> ELSE <<"pending", 0>>
lazy_state(real) == IF real # None THEN "running" ELSE "creating"

\* The operations that begin with _ensure_resolved.
LazyOperations == {"run_tool", "check_health"}

InitLazy ==
    /\ ExceptLazyIdle
    /\ l_real = None
    /\ l_lock = ""
    /\ l_ready = None
    /\ l_forwarded = <<>>
    /\ l_resolutions = 0
    /\ l_ops = [c \in LazyCallers |-> NoLazyOp]

\* The manager has a handle for the thread, or a new one in its place.
ManagerReady ==
    /\ l_ready < MaxHandles
    /\ l_ready' = l_ready + 1
    /\ UNCHANGED <<l_real, l_lock, l_ops, l_forwarded, l_resolutions>>
    /\ UNCHANGED exceptLazyVars

\* An operation is called; _ensure_resolved returns the real handle if
\* there is one and goes for the lock if not.
LazyCall(c, op) ==
    /\ l_ops[c].pc = "none"
    /\ Len(l_forwarded) < MaxForwarded
    /\ l_ops' = [l_ops EXCEPT ![c] =
          [op |-> op, polls |-> 0, sandbox |-> l_real,
           pc |-> IF l_real # None THEN "forward" ELSE "acquire"]]
    /\ UNCHANGED <<l_real, l_lock, l_ready, l_forwarded, l_resolutions>>
    /\ UNCHANGED exceptLazyVars

\* async with self._resolve_lock, entered without the second look at
\* _real_sandbox.
LazyAcquire_NoDoubleCheck(c) ==
    /\ l_ops[c].pc = "acquire"
    /\ l_lock = ""
    /\ l_lock' = c
    /\ l_ops' = [l_ops EXCEPT ![c].pc = "poll"]
    /\ UNCHANGED <<l_real, l_ready, l_forwarded, l_resolutions>>
    /\ UNCHANGED exceptLazyVars

\* async with self._resolve_lock: the lock is free; with a real handle
\* there by now it is returned and the lock released, else the polling
\* starts.
LazyAcquire(c) ==
    /\ l_ops[c].pc = "acquire"
    /\ l_lock = ""
    /\ IF l_real # None
       THEN /\ l_ops' = [l_ops EXCEPT ![c].pc = "forward", ![c].sandbox = l_real]
            /\ UNCHANGED l_lock
       ELSE /\ l_ops' = [l_ops EXCEPT ![c].pc = "poll"]
            /\ l_lock' = c
    /\ UNCHANGED <<l_real, l_ready, l_forwarded, l_resolutions>>
    /\ UNCHANGED exceptLazyVars

\* One turn of the polling loop: the manager's handle becomes the real
\* handle; without one, SandboxError once the timeout has elapsed, else
\* another turn after the sleep.
LazyPoll(c) ==
    /\ l_ops[c].pc = "poll"
    /\ IF l_ready # None
       THEN /\ l_real' = l_ready
            /\ l_resolutions' = l_resolutions + 1
            /\ l_lock' = ""
            /\ l_ops' = [l_ops EXCEPT ![c].pc = "forward", ![c].sandbox = l_ready]
       ELSE IF l_ops[c].polls >= MaxPolls
       THEN /\ l_lock' = ""
            /\ l_ops' = [l_ops EXCEPT ![c].pc = "raised"]
            /\ UNCHANGED <<l_real, l_resolutions>>
       ELSE /\ l_ops' = [l_ops EXCEPT ![c].polls = @ + 1]
            /\ UNCHANGED <<l_real, l_resolutions, l_lock>>
    /\ UNCHANGED <<l_ready, l_forwarded>>
    /\ UNCHANGED exceptLazyVars

\* sandbox.run_tool(...) / sandbox.check_health() on the handle that
\* _ensure_resolved returned.
LazyForward(c) ==
    /\ l_ops[c].pc = "forward"
    /\ l_forwarded' = Append(l_forwarded, [op |-> l_ops[c].op, sandbox |-> l_ops[c].sandbox])
    /\ l_ops' = [l_ops EXCEPT ![c] = NoLazyOp]
    /\ UNCHANGED <<l_real, l_lock, l_ready, l_resolutions>>
    /\ UNCHANGED exceptLazyVars

\* The caller gets the SandboxError.
LazyRaised(c) ==
    /\ l_ops[c].pc = "raised"
    /\ l_ops' = [l_ops EXCEPT ![c] = NoLazyOp]
    /\ UNCHANGED <<l_real, l_lock, l_ready, l_forwarded, l_resolutions>>
    /\ UNCHANGED exceptLazyVars

NextLazy ==
    \/ ManagerReady
    \/ \E c \in LazyCallers :
          \/ \E op \in LazyOperations : LazyCall(c, op)
          \/ LazyAcquire(c)
          \/ LazyPoll(c)
          \/ LazyForward(c)
          \/ LazyRaised(c)

SpecLazy == InitLazy /\ [][NextLazy]_vars

-----------------------------------------------------------------------------
(* Properties of the lazy handle.                                          *)

\* C34: before the resolution the lazy handle reports the placeholder id
\* and the state Creating; a caller leaves the polling only with the
\* manager's handle or when the timeout has elapsed; the real handle, once
\* set, never changes, every operation is forwarded to it, and it is set
\* once however many callers started together.
C34_LazyResolvesOnce ==
    /\ [](l_real = None => lazy_id(l_real) = <<"pending", 0>> /\ lazy_state(l_real) = "creating")
    /\ [](l_real # None => lazy_id(l_real) = <<"sandbox", l_real>>)
    /\ [](\A i \in 1..Len(l_forwarded) : l_forwarded[i].sandbox = l_real /\ l_real # None)
    /\ [](l_resolutions <= 1)
    /\ [](Cardinality({c \in LazyCallers : l_ops[c].pc = "poll"}) <= 1)
    /\ [][l_real # None => l_real' = l_real]_vars
    /\ [][\A c \in LazyCallers :
            l_ops[c].pc = "poll" /\ l_ops'[c].pc # "poll" =>
                \/ l_ready # None /\ l_real' = l_ready /\ l_ops'[c].pc = "forward"
                \/ l_ready = None /\ l_ops[c].polls >= MaxPolls /\ l_ops'[c].pc = "raised"]_vars

\* Two callers started before the resolution: one polled and resolved the
\* handle and was forwarded, the other still waits for the lock, and the
\* manager has another handle by now.
C34_Witness ==
    /\ l_resolutions = 1
    /\ l_forwarded # <<>>
    /\ l_ready # l_real
    /\ \E c \in LazyCallers : l_ops[c].pc = "acquire"

(***************************************************************************)
(* Part 15: KafkaAgent.ensure_thread_exists (src/src/kafka/base.py), the   *)
(* first statement of run_with_thread, on the threads table of             *)
(* LocalDBClient (src/src/db/local.py), whose id column is the primary     *)
(* key.  Each caller is one run_with_thread call; the awaits of            *)
(* thread_exists and of create_thread are where the calls interleave.      *)
(***************************************************************************)

\* The table holds the threads of earlier runs, each created once.
InitEnsure ==
    /\ ExceptEnsureIdle
    /\ e_threads \in SUBSET EnsureThreads
    /\ e_created = [t \in EnsureThreads |-> IF t \in e_threads THEN 1 ELSE 0]
    /\ e_ops = [c \in EnsureCallers |-> NoEnsureOp]

\* run_with_thread is called on an agent of thread t.
RunWithThread(c, t) ==
    /\ e_ops[c].pc = "idle"
    /\ e_ops' = [e_ops EXCEPT ![c] = [pc |-> "thread_exists", thread_id |-> t]]
    /\ UNCHANGED <<e_threads, e_created>>
    /\ UNCHANGED exceptEnsureVars

\* exists = await thread_exists(thread_id): SELECT 1 FROM threads WHERE
\* id = ?; with a row, ensure_thread_exists returns.
thread_exists(c) ==
    /\ e_ops[c].pc = "thread_exists"
    /\ e_ops' = [e_ops EXCEPT ![c].pc =
                    IF e_ops[c].thread_id \in e_threads THEN "returned"
                    ELSE "create_thread"]
    /\ UNCHANGED <<e_threads, e_created>>
    /\ UNCHANGED exceptEnsureVars

\* await create_thread(thread_id): INSERT INTO threads.  An id the table
\* holds already violates the primary key and the statement raises
\* IntegrityError, which nothing up to run_with_thread's caller handles.
create_thread(c) ==
    /\ e_ops[c].pc = "create_thread"
    /\ IF e_ops[c].thread_id \in e_threads
       THEN /\ e_ops' = [e_ops EXCEPT ![c].pc = "IntegrityError"]
            /\ UNCHANGED <<e_threads, e_created>>
       ELSE /\ e_threads' = e_threads \cup {e_ops[c].thread_id}
            /\ e_created' = [e_created EXCEPT ![e_ops[c].thread_id] = @ + 1]
            /\ e_ops' = [e_ops EXCEPT ![c].pc = "returned"]
    /\ UNCHANGED exceptEnsureVars

NextEnsure ==
    \/ \E c \in EnsureCallers, t \in EnsureThreads : RunWithThread(c, t)
    \/ \E c \in EnsureCallers : thread_exists(c)
    \/ \E c \in EnsureCallers : create_thread(c)

SpecEnsure == InitEnsure /\ [][NextEnsure]_vars

-----------------------------------------------------------------------------
(* Properties of ensure_thread_exists.                                     *)

\* C40: when run_with_thread calls for the same not-yet-existing thread run
\* concurrently, every one of them gets past ensure_thread_exists without
\* an error, and the thread is created exactly once.
C40_ConcurrentEnsureCreatesOnce ==
    /\ \A c \in EnsureCallers : e_ops[c].pc # "IntegrityError"
    /\ \A t \in EnsureThreads : e_created[t] <= 1
    /\ \A c \in EnsureCallers :
          e_ops[c].pc = "returned" => e_created[e_ops[c].thread_id] = 1

====
